---- MODULE Spec2Model ----
(***************************************************************************)
(* A model of the request-orchestration core of DevAi.                     *)
(*                                                                         *)
(*   Part I   EventPipeline.processEvent   (src/lib/core/event-pipeline.ts)*)
(*   Part II  ProviderManager.call and the circuit breaker kept in Redis   *)
(*            (src/lib/providers/manager.ts, src/lib/db/redis.ts)          *)
(*                                                                         *)
(*   Part III OpenAIProvider.call and BaseProvider.withRetry               *)
(*            (src/lib/providers/base.ts)                                  *)
(*   Part IV  FunctionRegistry: registration and executeFunction           *)
(*            (src/unnamed/part_003, lib/core/function-reflector.ts)       *)
(*   Part V   MessageRouter.routeMessage (src/lib/router/routeMessage.ts)  *)
(*   Part VI  EventPipeline.calculatePersonalityScore                      *)
(*                                                                         *)
(* Each part has its own specification; the variables of the other parts   *)
(* are held at their initial value.                                        *)
(***************************************************************************)
EXTENDS Integers, Sequences, FiniteSets, TLC

(***************************************************************************)
(* Bounds of the model.                                                    *)
(***************************************************************************)
\* events one EventPipeline instance processes, one after the other
MaxEvents == 2
\* concurrent callers of ProviderManager.call
NReq == 2
\* A behaviour of the router starts with at most MaxWarmCalls calls made one
\* after the other by caller 1, each for a perplexity model under the basic
\* plan with every adapter call failing and the clock standing still: these
\* bring the circuits near or past the threshold.  After them at most MaxCalls
\* calls are made, by any caller, with any input, outcome and timing.
MaxWarmCalls == 3
MaxCalls == 2
\* the clock advances in steps of TickMs, at most MaxTicks times
TickMs == 30000
MaxTicks == 2
\* the largest retries option a caller hands to a provider adapter
MaxRetriesOption == 3
\* executeFunction calls in flight at the same time
NExec == 2
\* executeFunction calls started by callers (fallback executions not counted)
MaxExecutions == 2
\* the registry's clock advances in steps of RegTickMs (just over a rate-limit
\* window), at most MaxRegTicks times
RegTickMs == 60001
MaxRegTicks == 1
\* routeMessage calls, one after the other
MaxRoutes == 2

VARIABLES
  \* ---- Part I: EventPipeline --------------------------------------------
  ppc,           \* "idle" | "running" | "resolved" | "rejected"
  event,         \* the event handed to processEvent
  stageIdx,      \* index into Stages of context.stage
  phase,         \* "start": stage-start not yet emitted; "steps": running steps
  stepIdx,       \* index of the next step of the current stage
  trace,         \* what happened for this event, in order: notifications and steps
  isValid,       \* context.data.isValid
  userContext,   \* context.data.userContext: "unset" | "row" | "null"
  execSuccess,   \* context.data.executionSuccess: "unset" | "true" | "false"
  errors,        \* context.errors, as the names of the steps that failed
  warnings,      \* context.warnings
  stageTimes,    \* the stages with an entry in context.metrics.stageTimes
  contextCache,  \* this.contextCache: the user ids with a (truthy) cached row
  storeReads,    \* reads of the profile/session store (supabase) for this event
  redisWrites,   \* writes of the short-term cache (redis) for this event
  chromaWrites,  \* writes of the long-term store (chroma) for this event
  handlerCalls,  \* capability handlers invoked for this event
  failedStep,    \* the step whose failure rejected processEvent, or "none"
  nEvents,       \* events processed so far
  observer,      \* the listener a client subscribed to the stage notifications, or "none"
  \* ---- Part II: ProviderManager and the circuit breaker -------------------
  rpc,           \* per caller: where its call of ProviderManager.call stands
  chain,         \* per caller: << provider >> \o fallbackChain of selectProvider
  idx,           \* per caller: the position in chain of the provider being tried
  snap,          \* per caller: the circuit state its last getCircuitBreakerState returned
  outcome,       \* per caller: "ok" | "fail" | "rejected" (circuit open) of the attempt being recorded, or "none"
  probing,       \* per caller: this attempt found the circuit half-open, or open with the cooldown over
  attempts,      \* per caller: the callProvider calls made so far, << provider, result >>
  result,        \* per caller: what call returned or threw
  redis,         \* per provider: the hash circuit:<provider> kept in Redis
  now,           \* Date.now()
  consecFails,   \* per provider: failed adapter calls since its last success (up to threshold)
  tripAt,        \* per provider: the time its consecutive failures reached the threshold
  nCalls,        \* calls of ProviderManager.call started so far in this phase
  warm,          \* the behaviour is still in its opening sequence of failing calls
  \* ---- Part III: a provider adapter call ----------------------------------
  apc,           \* "idle" | "operation" | "backoff" | "returned" | "threw"
  maxRetries,    \* withRetry: maxRetries
  attempt,       \* withRetry: attempt
  lastError,     \* withRetry: lastError, or the error call throws before withRetry
  opLog,         \* the outcomes of the attempts of the operation, in order
  \* ---- Part IV: FunctionRegistry ------------------------------------------
  functions,     \* this.functions: name -> definition (NoDef: no entry)
  categories,    \* this.categories: category -> set of names
  rateLimiters,  \* this.rateLimiters: name -> limiter (NoLimiter: no entry)
  fallbackChains,\* this.fallbackChains: name -> sequence of names
  executionHistory, \* this.executionHistory: name -> results recorded
  regNow,        \* Date.now() as the registry sees it
  epc,           \* per execution: "idle" | "awaiting" | "settled"
  ectx,          \* per execution: the context (userId, retryCount, fallbackChain) and the name asked for
  stack,         \* per execution: the executeFunction calls not yet returned, outermost first
  ret,           \* per execution: what executeFunction returned or threw
  admitLog,      \* history: per (caller, capability) the times of the calls admitted within the window
  lastCheck,     \* history: the last checkRateLimit decision and what preceded it
  nExec,         \* executeFunction calls started by callers so far
  regResult,     \* how the last registerFunction call ended, and for which name
  \* ---- Part V: MessageRouter ----------------------------------------------
  mpc,           \* position of routeMessage: "idle" | the step it awaits | "returned" | "threw"
  mreq,          \* the request
  mlocal,        \* the locals of routeMessage: plan, usage, context, modelId, response
  mresult,       \* what routeMessage returned or threw
  mem,           \* the promise of extractMemories: "none" | "pending" | "resolved" | "rejected"
  mcalls,        \* the calls made so far (provider manager, storeVector, incrementUsage) and the daily count they left in each caller's usage row
  mstart,        \* mcalls when the current routeMessage call began
  nRoutes,       \* routeMessage calls so far
  \* ---- Part VI: calculatePersonalityScore ---------------------------------
  scored         \* the last two calls, newest first: the input and what was returned

pipeVars == <<ppc, event, stageIdx, phase, stepIdx, trace, isValid, userContext,
              execSuccess, errors, warnings, stageTimes, contextCache, storeReads,
              redisWrites, chromaWrites, handlerCalls, failedStep, nEvents>>

routerVars == << rpc, chain, idx, snap, outcome, probing, attempts, result, redis,
                now, consecFails, tripAt, nCalls, warm >>

(***************************************************************************)
(* Part I.  The event and its schema.                                      *)
(***************************************************************************)
\* z.enum of EventSchema.type
EventTypeEnum == {"chat", "function_call", "memory_update", "context_shift",
                  "personality_change"}

\* The events the model feeds to processEvent: the fields EventSchema constrains,
\* each either well-formed or not, and the fields the steps read.
Events ==
  [ idIsUuid      : BOOLEAN,
    type          : {"chat", "function_call", "invalid_type"},
    fieldsPresent : BOOLEAN,      \* userId, sessionId, timestamp, payload, metadata, context
    userId        : {"u1", "u2"},
    functionName  : {"web_search", "no_such_function"} ]

\* EventSchema.parse succeeds
EventSchemaOk(e) ==
  /\ e.idIsUuid
  /\ e.type \in EventTypeEnum
  /\ e.fieldsPresent

\* Stages with two stages exchanged
StagesSwapped == << "ingest", "validate", "personality_routing", "context_analysis",
                    "function_execution", "memory_update", "response_generation",
                    "feedback_loop" >>

\* Object.values(PipelineStage)
Stages == << "ingest", "validate", "context_analysis", "personality_routing",
             "function_execution", "memory_update", "response_generation",
             "feedback_loop" >>

\* Pipelines with the store lookup of the ingest stage placed before validation
PipelinesEnrichFirst(stage) ==
  CASE stage = "ingest" ->
         << "enrichContext", "validateEvent", "deduplicateEvent" >>
    [] stage = "context_analysis" ->
         << "analyzeUserContext", "analyzeConversationContext",
            "analyzePersonalityContext", "generateContextHash" >>
    [] stage = "personality_routing" ->
         << "determinePersonality", "routeToPersonality", "setupFallbackChain" >>
    [] stage = "function_execution" ->
         << "prepareFunctionContext", "executeFunction", "handleFunctionErrors",
            "retryWithFallback" >>
    [] stage = "memory_update" ->
         << "updateShortTermMemory", "updateLongTermMemory", "updateSemanticMemory",
            "updateEmotionalMemory" >>
    [] stage = "response_generation" ->
         << "generateResponse", "applyPersonalityStyling", "addContextualInsights" >>
    [] stage = "feedback_loop" ->
         << "collectUserFeedback", "updateUserPreferences", "optimizePipeline",
            "updateMemoryWeights" >>
    [] OTHER -> << >>

\* this.pipelines.get(stage) || []   (no entry is registered for "validate")
Pipelines(stage) ==
  CASE stage = "ingest" ->
         << "validateEvent", "enrichContext", "deduplicateEvent" >>
    [] stage = "context_analysis" ->
         << "analyzeUserContext", "analyzeConversationContext",
            "analyzePersonalityContext", "generateContextHash" >>
    [] stage = "personality_routing" ->
         << "determinePersonality", "routeToPersonality", "setupFallbackChain" >>
    [] stage = "function_execution" ->
         << "prepareFunctionContext", "executeFunction", "handleFunctionErrors",
            "retryWithFallback" >>
    [] stage = "memory_update" ->
         << "updateShortTermMemory", "updateLongTermMemory", "updateSemanticMemory",
            "updateEmotionalMemory" >>
    [] stage = "response_generation" ->
         << "generateResponse", "applyPersonalityStyling", "addContextualInsights" >>
    [] stage = "feedback_loop" ->
         << "collectUserFeedback", "updateUserPreferences", "optimizePipeline",
            "updateMemoryWeights" >>
    [] OTHER -> << >>

\* The steps whose body the class defines; the others are bound in
\* initializePipelines but have no body in the class.
DefinedSteps == { "validateEvent", "enrichContext", "analyzeUserContext",
                  "determinePersonality", "executeFunction",
                  "updateShortTermMemory", "updateLongTermMemory" }

\* functionMap of executeFunctionByName
FunctionMap == { "web_search", "document_analysis", "code_generation",
                 "image_analysis", "memory_recall" }

CurStage == Stages[stageIdx]
CurSteps == Pipelines(CurStage)
\* the step the inner loop of processEvent is about to await
CurStep ==
  IF ppc = "running" /\ phase = "steps" /\ stepIdx <= Len(CurSteps)
  THEN CurSteps[stepIdx] ELSE "none"

\* this.emit('pipeline:stage:start', {stage, context})
EmitStageStart(tr, stage) == Append(tr, << "stage-start", stage >>)
\* EmitStageComplete that emits nothing
EmitStageCompleteDropped(tr, stage) == tr

\* this.emit('pipeline:stage:complete', {stage, context})
EmitStageComplete(tr, stage) == Append(tr, << "stage-complete", stage >>)
\* await func(context)
RunStep(tr, stage, step) == Append(tr, << "step", stage, step >>)

PipelineInit ==
  /\ ppc = "idle"
  /\ event = [ idIsUuid |-> TRUE, type |-> "chat", fieldsPresent |-> TRUE,
               userId |-> "u1", functionName |-> "web_search" ]
  /\ stageIdx = 1
  /\ phase = "start"
  /\ stepIdx = 1
  /\ trace = << >>
  /\ isValid = FALSE
  /\ userContext = "unset"
  /\ execSuccess = "unset"
  /\ errors = << >>
  /\ warnings = << >>
  /\ stageTimes = {}
  /\ contextCache = {}
  /\ storeReads = 0
  /\ redisWrites = 0
  /\ chromaWrites = 0
  /\ handlerCalls = 0
  /\ failedStep = "none"
  /\ nEvents = 0
  /\ observer = "none"

\* processEvent(event): the context is created, nothing has run yet
ProcessEvent(e) ==
  /\ ppc \in {"idle", "resolved", "rejected"}
  /\ nEvents < MaxEvents
  /\ ppc' = "running"
  /\ event' = e
  /\ stageIdx' = 1
  /\ phase' = "start"
  /\ stepIdx' = 1
  /\ trace' = << >>
  /\ isValid' = FALSE
  /\ userContext' = "unset"
  /\ execSuccess' = "unset"
  /\ errors' = << >>
  /\ warnings' = << >>
  /\ stageTimes' = {}
  /\ storeReads' = 0
  /\ redisWrites' = 0
  /\ chromaWrites' = 0
  /\ handlerCalls' = 0
  /\ failedStep' = "none"
  /\ nEvents' = nEvents + 1
  /\ UNCHANGED contextCache

\* how a listener a client subscribes handles a notification: it returns,
\* it throws, or it is an async function whose promise stays pending or rejects
ObserverKinds == { "returns", "throws", "pending", "rejects" }

\* emit(...) calls the listeners synchronously, one after the other, and a
\* listener's exception leaves emit; the promise of an async listener is dropped
ListenerThrows == observer = "throws"

\* pipeline.on('pipeline:stage:start', listener) and the same for stage-complete
Subscribe(kind) ==
  /\ ppc \in { "idle", "resolved", "rejected" }
  /\ observer' = kind

\* emit threw inside the try of processEvent: the catch pushes the error,
\* emits pipeline:error and rethrows
EmitThrows ==
  /\ errors' = errors \o << "listener" >>
  /\ failedStep' = "listener"
  /\ ppc' = "rejected"

\* context.stage = stage; emit stage-start
StageStart ==
  /\ ppc = "running"
  /\ phase = "start"
  /\ trace' = EmitStageStart(trace, CurStage)
  /\ IF ListenerThrows
     THEN EmitThrows /\ UNCHANGED << phase, stepIdx >>
     ELSE /\ phase' = "steps"
          /\ stepIdx' = 1
          /\ UNCHANGED << ppc, errors, failedStep >>
  /\ UNCHANGED << event, stageIdx, isValid, userContext, execSuccess,
                  warnings, stageTimes, contextCache, storeReads, redisWrites,
                  chromaWrites, handlerCalls, nEvents >>

\* the steps of the stage are done: record the stage time, emit stage-complete,
\* go on with the next stage, or return context.data.response after the last
StageComplete ==
  /\ ppc = "running"
  /\ phase = "steps"
  /\ stepIdx > Len(CurSteps)
  /\ stageTimes' = stageTimes \cup {CurStage}
  /\ trace' = EmitStageComplete(trace, CurStage)
  /\ IF ListenerThrows
     THEN EmitThrows /\ UNCHANGED << stageIdx, phase, stepIdx >>
     ELSE /\ IF stageIdx < Len(Stages)
             THEN /\ stageIdx' = stageIdx + 1
                  /\ phase' = "start"
                  /\ ppc' = ppc
             ELSE /\ stageIdx' = stageIdx
                  /\ phase' = "steps"
                  /\ ppc' = "resolved"
          /\ stepIdx' = 1
          /\ UNCHANGED << errors, failedStep >>
  /\ UNCHANGED << event, isValid, userContext, execSuccess, warnings,
                  contextCache, storeReads, redisWrites, chromaWrites,
                  handlerCalls, nEvents >>

\* A step returned: the loop goes on with the next step of the stage.
StepReturns(step) ==
  /\ trace' = RunStep(trace, CurStage, step)
  /\ stepIdx' = stepIdx + 1
  /\ UNCHANGED << ppc, stageIdx, phase, errors, failedStep >>

\* StepThrows with the error swallowed: it is recorded and the loop goes on
StepThrowsSwallowed(step, pushed) ==
  /\ trace' = RunStep(trace, CurStage, step)
  /\ errors' = errors \o pushed \o << step >>
  /\ failedStep' = step
  /\ stepIdx' = stepIdx + 1
  /\ UNCHANGED << ppc, stageIdx, phase >>

\* A step threw: the catch of processEvent pushes the error, emits
\* pipeline:error and rethrows; nothing else of the pipeline runs.
StepThrows(step, pushed) ==
  /\ trace' = RunStep(trace, CurStage, step)
  /\ errors' = errors \o pushed \o << step >>
  /\ failedStep' = step
  /\ ppc' = "rejected"
  /\ UNCHANGED << stageIdx, phase, stepIdx >>

ValidateEvent ==
  /\ CurStep = "validateEvent"
  /\ IF EventSchemaOk(event)
     THEN /\ isValid' = TRUE
          /\ StepReturns("validateEvent")
     ELSE /\ isValid' = isValid
          \* validateEvent pushes the parse error itself before it throws
          /\ StepThrows("validateEvent", << "validateEvent" >>)
  /\ UNCHANGED << event, userContext, execSuccess, warnings, stageTimes,
                  contextCache, storeReads, redisWrites, chromaWrites,
                  handlerCalls, nEvents >>

\* enrichContext: the user row from the cache or the store, then the session row
EnrichContext ==
  /\ CurStep = "enrichContext"
  /\ IF event.userId \in contextCache
     THEN \E sess \in {"ok", "reject"} :
            /\ userContext' = "row"
            /\ contextCache' = contextCache
            /\ storeReads' = storeReads + 1
            /\ IF sess = "ok" THEN StepReturns("enrichContext")
                              ELSE StepThrows("enrichContext", << >>)
     ELSE \E user \in {"row", "null", "reject"}, sess \in {"ok", "reject"} :
            IF user = "reject"
            THEN /\ sess = "ok"
                 /\ userContext' = userContext
                 /\ contextCache' = contextCache
                 /\ storeReads' = storeReads + 1
                 /\ StepThrows("enrichContext", << >>)
            ELSE /\ userContext' = user
                 /\ contextCache' = IF user = "row"
                                    THEN contextCache \cup {event.userId}
                                    ELSE contextCache
                 /\ storeReads' = storeReads + 2
                 /\ IF sess = "ok" THEN StepReturns("enrichContext")
                                   ELSE StepThrows("enrichContext", << >>)
  /\ UNCHANGED << event, isValid, execSuccess, warnings, stageTimes, redisWrites,
                  chromaWrites, handlerCalls, nEvents >>

\* analyzeUserContext: userContext.id, then three reads of the store
AnalyzeUserContext ==
  /\ CurStep = "analyzeUserContext"
  /\ IF userContext # "row"
     THEN /\ storeReads' = storeReads
          /\ StepThrows("analyzeUserContext", << >>)
     ELSE \E reads \in 1..3, ok \in BOOLEAN :
            /\ ok => reads = 3
            /\ storeReads' = storeReads + reads
            /\ IF ok THEN StepReturns("analyzeUserContext")
                     ELSE StepThrows("analyzeUserContext", << >>)
  /\ UNCHANGED << event, isValid, userContext, execSuccess, warnings, stageTimes,
                  contextCache, redisWrites, chromaWrites, handlerCalls, nEvents >>

\* determinePersonality: the score, then the personality row from the store
DeterminePersonality ==
  /\ CurStep = "determinePersonality"
  /\ \E ok \in BOOLEAN :
       /\ storeReads' = storeReads + 1
       /\ IF ok THEN StepReturns("determinePersonality")
                ELSE StepThrows("determinePersonality", << >>)
  /\ UNCHANGED << event, isValid, userContext, execSuccess, warnings, stageTimes,
                  contextCache, redisWrites, chromaWrites, handlerCalls, nEvents >>

\* executeFunction: only for function_call events; a failure of the function is
\* caught and recorded in context.data, the step itself never throws
ExecuteFunction ==
  /\ CurStep = "executeFunction"
  /\ IF event.type = "function_call"
     THEN IF event.functionName \in FunctionMap
          THEN /\ handlerCalls' = handlerCalls + 1
               /\ \E ok \in BOOLEAN :
                    execSuccess' = IF ok THEN "true" ELSE "false"
          ELSE /\ handlerCalls' = handlerCalls
               /\ execSuccess' = "false"
     ELSE /\ handlerCalls' = handlerCalls
          /\ execSuccess' = execSuccess
  /\ StepReturns("executeFunction")
  /\ UNCHANGED << event, isValid, userContext, warnings, stageTimes, contextCache,
                  storeReads, redisWrites, chromaWrites, nEvents >>

\* updateShortTermMemory: await this.redis.setEx(...), not guarded by a try
UpdateShortTermMemory ==
  /\ CurStep = "updateShortTermMemory"
  /\ \E ok \in BOOLEAN :
       IF ok THEN /\ redisWrites' = redisWrites + 1
                  /\ StepReturns("updateShortTermMemory")
             ELSE /\ redisWrites' = redisWrites
                  /\ StepThrows("updateShortTermMemory", << >>)
  /\ UNCHANGED << event, isValid, userContext, execSuccess, warnings, stageTimes,
                  contextCache, storeReads, chromaWrites, handlerCalls, nEvents >>

\* updateLongTermMemory: the embedding, then the add to the collection, not
\* guarded by a try
UpdateLongTermMemory ==
  /\ CurStep = "updateLongTermMemory"
  /\ \E ok \in BOOLEAN :
       IF ok THEN /\ chromaWrites' = chromaWrites + 1
                  /\ StepReturns("updateLongTermMemory")
             ELSE /\ chromaWrites' = chromaWrites
                  /\ StepThrows("updateLongTermMemory", << >>)
  /\ UNCHANGED << event, isValid, userContext, execSuccess, warnings, stageTimes,
                  contextCache, storeReads, redisWrites, handlerCalls, nEvents >>

\* A step bound in initializePipelines whose body the class does not define:
\* it returns or throws, and touches nothing the model tracks.
OpaqueStep ==
  /\ CurStep # "none"
  /\ CurStep \notin DefinedSteps
  /\ \E ok \in BOOLEAN :
       IF ok THEN StepReturns(CurStep) ELSE StepThrows(CurStep, << >>)
  /\ UNCHANGED << event, isValid, userContext, execSuccess, warnings, stageTimes,
                  contextCache, storeReads, redisWrites, chromaWrites,
                  handlerCalls, nEvents >>

adapterVars == << apc, maxRetries, attempt, lastError, opLog >>

registryVars == << functions, categories, rateLimiters, fallbackChains,
                  executionHistory, regNow, epc, ectx, stack, ret, admitLog,
                  lastCheck, nExec, regResult >>

msgVars == << mpc, mreq, mlocal, mresult, mem, mcalls, mstart, nRoutes >>

vars == << pipeVars, routerVars, adapterVars, registryVars, msgVars, scored, observer >>

(***************************************************************************)
(* Part II.  Configuration tables.                                         *)
(***************************************************************************)
\* threshold and timeout of updateCircuitBreaker
Threshold == 5
TimeoutMs == 60000

Reqs == 1..NReq

\* the providers initializeProviders registers, in the order of the Map
RegisteredProviders == << "openai", "perplexity" >>
Registered == { RegisteredProviders[i] : i \in 1..Len(RegisteredProviders) }
\* every provider a model of the configuration names
Providers == { "openai", "perplexity", "anthropic" }

\* models[id].provider of config/models.ts; "none" when getModel returns null
ModelProvider(m) ==
  CASE m \in {"gpt-4", "gpt-4-turbo", "gpt-3.5-turbo"} -> "openai"
    [] m \in {"claude-3-opus", "claude-3-sonnet", "claude-3-haiku"} -> "anthropic"
    [] m \in {"llama-3.1-70b-instruct", "llama-3.1-8b-instruct"} -> "perplexity"
    [] m = "gpt-4-openrouter" -> "openrouter"
    [] OTHER -> "none"

\* provider.supportsModel(m): the models list of config/providers
SupportsModel(p, m) ==
  CASE p = "openai" -> m \in {"gpt-4", "gpt-4-turbo", "gpt-3.5-turbo"}
    [] p = "perplexity" -> m \in {"llama-3.1-8b-instruct", "llama-3.1-70b-instruct",
                                   "mixtral-8x7b-instruct"}
    [] OTHER -> FALSE

\* plan.fallbackRules.modelDowngradeChain; << >> when getPlan returns null
ModelDowngradeChain(pl) ==
  CASE pl = "free" -> << "gpt-3.5-turbo", "claude-3-haiku" >>
    [] pl = "basic" -> << "gpt-4-turbo", "claude-3-sonnet", "gpt-3.5-turbo" >>
    [] pl = "pro" -> << "gpt-4", "claude-3-opus", "gpt-4-turbo" >>
    [] pl = "enterprise" -> << "gpt-4", "claude-3-opus" >>
    [] OTHER -> << >>

\* the first registered provider that supports the model, or "none"
FindProviderForModel(m) ==
  LET hits == { i \in 1..Len(RegisteredProviders) : SupportsModel(RegisteredProviders[i], m) }
  IN  IF hits = {} THEN "none"
      ELSE RegisteredProviders[CHOOSE i \in hits : \A j \in hits : i <= j]

\* selectProvider(modelId, options): ok = FALSE when it throws
SelectProvider(m, pl, force) ==
  IF ModelProvider(m) = "none"
  THEN [ ok |-> FALSE, provider |-> "none", fallbackChain |-> << >> ]
  ELSE IF force # "none"
  THEN IF force \in Registered
       THEN [ ok |-> TRUE, provider |-> force, fallbackChain |-> << >> ]
       ELSE [ ok |-> FALSE, provider |-> "none", fallbackChain |-> << >> ]
  ELSE LET downgrade == ModelDowngradeChain(pl)
           mapped == [ i \in 1..Len(downgrade) |-> ModelProvider(downgrade[i]) ]
           provider == FindProviderForModel(m)
           NotPrimary(p) == p # provider
       IN  IF provider = "none"
           THEN [ ok |-> FALSE, provider |-> "none", fallbackChain |-> << >> ]
           ELSE [ ok |-> TRUE, provider |-> provider,
                  fallbackChain |-> SelectSeq(mapped, NotPrimary) ]

\* the inputs the model gives to call
RequestModels == { "gpt-4", "llama-3.1-70b-instruct", "claude-3-opus", "no-such-model" }
RequestPlans == { "none", "free", "basic", "pro", "enterprise" }
RequestForce == { "none", "perplexity", "no-such-provider" }
\* the input of the opening calls: chain perplexity, openai, anthropic, openai
WarmModel == "llama-3.1-70b-instruct"
WarmPlan == "basic"

(***************************************************************************)
(* Part II.  The circuit state in Redis.                                   *)
(***************************************************************************)
\* A hash never written: hGetAll returns no field.  0 stands for a missing
\* lastFailureTime / nextAttemptTime (undefined), "" for a missing status.
EmptyHash == [ status |-> "", failureCount |-> 0, lastFailureTime |-> 0,
               nextAttemptTime |-> 0 ]

\* getCircuitBreakerState(key): the hash with its defaults
GetCircuitBreakerState(h) ==
  [ status          |-> IF h.status = "" THEN "closed" ELSE h.status,
    failureCount    |-> h.failureCount,
    lastFailureTime |-> h.lastFailureTime,
    nextAttemptTime |-> h.nextAttemptTime ]

\* updateCircuitBreakerState(key, state): hSet writes status and failureCount,
\* and the two times only when they are truthy; other fields keep their value
UpdateCircuitBreakerState(h, st) ==
  [ status          |-> st.status,
    failureCount    |-> st.failureCount,
    lastFailureTime |-> IF st.lastFailureTime # 0 THEN st.lastFailureTime
                        ELSE h.lastFailureTime,
    nextAttemptTime |-> IF st.nextAttemptTime # 0 THEN st.nextAttemptTime
                        ELSE h.nextAttemptTime ]

\* the state updateCircuitBreaker writes on 'success', with the count kept
SuccessStateKeepCount(cur) ==
  [ status |-> "closed", failureCount |-> cur.failureCount, lastFailureTime |-> 0,
    nextAttemptTime |-> 0 ]

\* the state updateCircuitBreaker writes on 'success'
SuccessState(cur) ==
  [ status |-> "closed", failureCount |-> 0, lastFailureTime |-> 0,
    nextAttemptTime |-> 0 ]

\* the state updateCircuitBreaker writes on 'failure', from the state it read
FailureState(cur, t) ==
  LET newFailureCount == cur.failureCount + 1
      shouldOpen == newFailureCount >= Threshold
  IN  [ status          |-> IF shouldOpen THEN "open" ELSE "closed",
        failureCount    |-> newFailureCount,
        lastFailureTime |-> t,
        nextAttemptTime |-> IF shouldOpen THEN t + TimeoutMs ELSE 0 ]

\* callProvider: the circuit is open and the cooldown is not over
CircuitRejects(cs, t) ==
  /\ cs.status = "open"
  /\ cs.nextAttemptTime # 0
  /\ t < cs.nextAttemptTime

(***************************************************************************)
(* Part II.  ProviderManager.call                                          *)
(***************************************************************************)
NoResult == [ kind |-> "none", fallbackUsed |-> FALSE, providerUsed |-> "none",
              fallbackReason |-> "none" ]
\* the value of snap while the caller holds no circuit state it will still use
NoSnap == GetCircuitBreakerState(EmptyHash)

RouterInit ==
  /\ rpc = [ r \in Reqs |-> "idle" ]
  /\ chain = [ r \in Reqs |-> << >> ]
  /\ idx = [ r \in Reqs |-> 1 ]
  /\ snap = [ r \in Reqs |-> NoSnap ]
  /\ outcome = [ r \in Reqs |-> "none" ]
  /\ probing = [ r \in Reqs |-> FALSE ]
  /\ attempts = [ r \in Reqs |-> << >> ]
  /\ result = [ r \in Reqs |-> NoResult ]
  /\ redis = [ p \in Providers |-> EmptyHash ]
  /\ now = TickMs
  /\ consecFails = [ p \in Providers |-> 0 ]
  /\ tripAt = [ p \in Providers |-> 0 ]
  /\ nCalls = 0
  /\ warm = TRUE

Cur(r) == chain[r][idx[r]]

\* the metadata of the return statement of the primary, used for every provider
ResponseMetadataOfPrimary(ch, i) ==
  [ kind |-> "response", fallbackUsed |-> FALSE, providerUsed |-> ch[1],
    fallbackReason |-> "none" ]

\* the metadata call adds to the response of the provider at position i of the
\* chain: the return statement of the primary (i = 1) or of the fallback loop
ResponseMetadata(ch, i) ==
  IF i = 1
  THEN [ kind |-> "response", fallbackUsed |-> FALSE, providerUsed |-> ch[1],
         fallbackReason |-> "none" ]
  ELSE [ kind |-> "response", fallbackUsed |-> TRUE, providerUsed |-> ch[i],
         fallbackReason |-> "Primary provider failed" ]

\* the fallback loop skipping a provider
NextIdxSkipping(i) == i + 2

\* the position tried after position i: the primary, then the fallback chain in order
NextIdx(i) == i + 1

\* The caller turns to position i of its chain: past the end, call throws "All
\* providers failed"; an unregistered provider makes callProvider throw at once,
\* which a fallback records as a failure; otherwise callProvider reads the
\* circuit state.  (The primary is always registered.)
EnterAttempt(r, ch, i, att) ==
  IF i > Len(ch)
  THEN /\ rpc' = [rpc EXCEPT ![r] = "failed"]
       /\ result' = [result EXCEPT ![r] = [ kind |-> "all-providers-failed",
                                            fallbackUsed |-> FALSE,
                                            providerUsed |-> "none",
                                            fallbackReason |-> "none" ]]
       /\ idx' = [idx EXCEPT ![r] = Len(ch)]
       /\ outcome' = [outcome EXCEPT ![r] = "none"]
       /\ attempts' = [attempts EXCEPT ![r] = att]
  ELSE /\ result' = result
       /\ idx' = [idx EXCEPT ![r] = i]
       /\ IF ch[i] \in Registered
          THEN /\ rpc' = [rpc EXCEPT ![r] = "cbRead"]
               /\ outcome' = [outcome EXCEPT ![r] = "none"]
               /\ attempts' = [attempts EXCEPT ![r] = att]
          ELSE /\ rpc' = [rpc EXCEPT ![r] = "updRead"]
               /\ outcome' = [outcome EXCEPT ![r] = "fail"]
               /\ attempts' = [attempts EXCEPT ![r] = Append(att, << ch[i], "fail" >>)]

\* callProvider threw for the provider at the current position: the primary's
\* failure is only logged and the fallback loop starts; a fallback's failure is
\* recorded in its circuit state before the loop goes on.
AttemptFails(r) ==
  LET att == Append(attempts[r], << Cur(r), "fail" >>)
  IN  IF idx[r] = 1
      THEN EnterAttempt(r, chain[r], NextIdx(1), att)
      ELSE /\ rpc' = [rpc EXCEPT ![r] = "updRead"]
           \* thrown by callProvider itself ('Circuit breaker open ...') or by the adapter
           /\ outcome' = [outcome EXCEPT ![r] =
                            IF rpc[r] = "cbRead" THEN "rejected" ELSE "fail"]
           /\ attempts' = [attempts EXCEPT ![r] = att]
           /\ UNCHANGED << idx, result >>

\* call(request, options) up to the first await of callProvider
Call(r, m, pl, force) ==
  /\ rpc[r] = "idle"
  /\ nCalls < (IF warm THEN MaxWarmCalls ELSE MaxCalls)
  /\ nCalls' = nCalls + 1
  /\ LET sel == SelectProvider(m, pl, force)
     IN  IF sel.ok
         THEN /\ chain' = [chain EXCEPT ![r] = << sel.provider >> \o sel.fallbackChain]
              /\ EnterAttempt(r, << sel.provider >> \o sel.fallbackChain, 1, << >>)
         ELSE /\ chain' = [chain EXCEPT ![r] = << >>]
              /\ rpc' = [rpc EXCEPT ![r] = "failed"]
              /\ result' = [result EXCEPT ![r] = [ kind |-> "select-error",
                                                   fallbackUsed |-> FALSE,
                                                   providerUsed |-> "none",
                                                   fallbackReason |-> "none" ]]
              /\ UNCHANGED << idx, outcome, attempts >>
  /\ UNCHANGED << snap, probing, redis, now, consecFails, tripAt >>

\* callProvider: the circuit state arrives.  Open within the cooldown: throw
\* without calling the provider.  Open with the cooldown over: go on to write
\* half-open.  Otherwise (closed, half-open): call the provider.
CbRead(r) ==
  /\ rpc[r] = "cbRead"
  /\ LET p == Cur(r)
         cs == GetCircuitBreakerState(redis[p])
     IN  /\ IF cs.status = "open"
            THEN IF CircuitRejects(cs, now)
                 THEN /\ AttemptFails(r)
                      /\ snap' = [snap EXCEPT ![r] = NoSnap]
                      /\ probing' = [probing EXCEPT ![r] = FALSE]
                 ELSE /\ rpc' = [rpc EXCEPT ![r] = "halfOpenWrite"]
                      /\ snap' = [snap EXCEPT ![r] = cs]
                      /\ probing' = [probing EXCEPT ![r] = TRUE]
                      /\ UNCHANGED << idx, outcome, attempts, result >>
            ELSE /\ rpc' = [rpc EXCEPT ![r] = "inflight"]
                 /\ snap' = [snap EXCEPT ![r] = NoSnap]
                 /\ probing' = [probing EXCEPT ![r] = (cs.status = "half-open")]
                 /\ UNCHANGED << idx, outcome, attempts, result >>
  /\ UNCHANGED << chain, redis, now, consecFails, tripAt, nCalls >>

\* callProvider: updateCircuitBreakerState(providerName, {...circuitState,
\* status: 'half-open'}) with the state read before
HalfOpenWrite(r) ==
  /\ rpc[r] = "halfOpenWrite"
  /\ redis' = [redis EXCEPT ![Cur(r)] =
                 UpdateCircuitBreakerState(@, [snap[r] EXCEPT !.status = "half-open"])]
  /\ rpc' = [rpc EXCEPT ![r] = "probeInvoke"]
  /\ snap' = [snap EXCEPT ![r] = NoSnap]
  /\ UNCHANGED << chain, idx, outcome, probing, attempts, result, now, consecFails, tripAt, nCalls >>

\* callProvider: provider.call(request, ...) once the half-open write returned
ProbeInvoke(r) ==
  /\ rpc[r] = "probeInvoke"
  /\ rpc' = [rpc EXCEPT ![r] = "inflight"]
  /\ UNCHANGED << chain, idx, snap, outcome, probing, attempts, result, redis, now,
                  consecFails, tripAt, nCalls >>

\* provider.call returns a response or throws
AdapterReturn(r, ok) ==
  /\ rpc[r] = "inflight"
  /\ LET p == Cur(r)
     IN  IF ok
         THEN /\ rpc' = [rpc EXCEPT ![r] = "updRead"]
              /\ outcome' = [outcome EXCEPT ![r] = "ok"]
              /\ attempts' = [attempts EXCEPT ![r] = Append(@, << p, "ok" >>)]
              /\ consecFails' = [consecFails EXCEPT ![p] = 0]
              /\ tripAt' = [tripAt EXCEPT ![p] = 0]
              /\ UNCHANGED << idx, result, probing >>
         ELSE /\ AttemptFails(r)
              \* a fallback's failed probe is still to be recorded
              /\ probing' = [probing EXCEPT ![r] = @ /\ idx[r] # 1]
              /\ consecFails' = [consecFails EXCEPT ![p] =
                                   IF @ < Threshold THEN @ + 1 ELSE @]
              /\ tripAt' = [tripAt EXCEPT ![p] =
                              IF consecFails[p] = Threshold - 1 THEN now ELSE @]
  /\ UNCHANGED << chain, snap, redis, now, nCalls >>

\* updateCircuitBreaker: const currentState = await getCircuitBreakerState(...)
UpdRead(r) ==
  /\ rpc[r] = "updRead"
  /\ snap' = [snap EXCEPT ![r] = GetCircuitBreakerState(redis[Cur(r)])]
  /\ rpc' = [rpc EXCEPT ![r] = "updWrite"]
  /\ UNCHANGED << chain, idx, outcome, probing, attempts, result, redis, now, consecFails, tripAt, nCalls >>

\* updateCircuitBreaker: the write.  After a success call returns the response
\* with its metadata; after a failure the fallback loop goes on.
UpdWrite(r) ==
  /\ rpc[r] = "updWrite"
  /\ LET p == Cur(r)
     IN  IF outcome[r] = "ok"
         THEN /\ redis' = [redis EXCEPT ![p] =
                             UpdateCircuitBreakerState(@, SuccessState(snap[r]))]
              /\ rpc' = [rpc EXCEPT ![r] = "done"]
              /\ result' = [result EXCEPT ![r] = ResponseMetadata(chain[r], idx[r])]
              /\ UNCHANGED << idx, outcome, attempts, probing >>
         ELSE /\ redis' = [redis EXCEPT ![p] =
                             UpdateCircuitBreakerState(@, FailureState(snap[r], now))]
              /\ EnterAttempt(r, chain[r], NextIdx(idx[r]), attempts[r])
              /\ probing' = [probing EXCEPT ![r] = FALSE]
  /\ snap' = [snap EXCEPT ![r] = NoSnap]
  /\ UNCHANGED << chain, now, consecFails, tripAt,
                  nCalls >>

\* the caller has its response or error; it may call again
Return(r) ==
  /\ rpc[r] \in {"done", "failed"}
  /\ rpc' = [rpc EXCEPT ![r] = "idle"]
  /\ chain' = [chain EXCEPT ![r] = << >>]
  /\ idx' = [idx EXCEPT ![r] = 1]
  /\ snap' = [snap EXCEPT ![r] = NoSnap]
  /\ outcome' = [outcome EXCEPT ![r] = "none"]
  /\ probing' = [probing EXCEPT ![r] = FALSE]
  /\ attempts' = [attempts EXCEPT ![r] = << >>]
  /\ result' = [result EXCEPT ![r] = NoResult]
  /\ UNCHANGED << redis, now, consecFails, tripAt, nCalls >>

\* the opening sequence of failing calls ends
EndWarm ==
  /\ warm
  /\ \A r \in Reqs : rpc[r] = "idle"
  /\ warm' = FALSE
  /\ nCalls' = 0
  /\ UNCHANGED << rpc, chain, idx, snap, outcome, probing, attempts, result, redis,
                  now, consecFails, tripAt >>

\* time passes
Tick ==
  /\ now < TickMs * (MaxTicks + 1)
  /\ now' = now + TickMs
  /\ UNCHANGED << rpc, chain, idx, snap, outcome, probing, attempts, result, redis, consecFails, tripAt, nCalls >>

(***************************************************************************)
(* Part III.  OpenAIProvider.call and BaseProvider.withRetry               *)
(***************************************************************************)
\* options.retries || 3
DefaultRetries == 3
RetriesOptions == 0..MaxRetriesOption
\* how one attempt of the operation (client.chat.completions.create) ends
RetryableErrors == { "timeout", "server_error" }
TerminalErrors == { "validation", "authentication" }
OperationOutcomes == { "ok" } \cup RetryableErrors \cup TerminalErrors

AdapterInit ==
  /\ apc = "idle"
  /\ maxRetries = 0
  /\ attempt = 0
  /\ lastError = "none"
  /\ opLog = << >>

\* withRetry: after a failed attempt the loop goes on unless attempt === maxRetries
ShouldRetry(att, max, err) == att # max

\* the second argument of withRetry: options.retries || 3
EffectiveRetries(retries) == IF retries = 0 THEN DefaultRetries ELSE retries

\* call(request, options) up to the first attempt of the operation: an invalid
\* request throws before withRetry
ProviderCall(requestValid, retries) ==
  /\ apc = "idle"
  /\ opLog' = << >>
  /\ attempt' = 0
  /\ IF requestValid
     THEN /\ apc' = "operation"
          /\ maxRetries' = EffectiveRetries(retries)
          /\ lastError' = "none"
     ELSE /\ apc' = "threw"
          /\ maxRetries' = 0
          /\ lastError' = "invalid_request"

\* withRetry: await operation() settles
OperationSettles(o) ==
  /\ apc = "operation"
  /\ opLog' = Append(opLog, o)
  /\ IF o = "ok"
     THEN /\ apc' = "returned"
          /\ UNCHANGED lastError
     ELSE /\ lastError' = o
          /\ apc' = IF ShouldRetry(attempt, maxRetries, o) THEN "backoff" ELSE "threw"
  /\ UNCHANGED << maxRetries, attempt >>

\* withRetry: the backoff delay is over, the loop takes its next turn
BackoffElapsed ==
  /\ apc = "backoff"
  /\ attempt' = attempt + 1
  /\ apc' = "operation"
  /\ UNCHANGED << maxRetries, lastError, opLog >>

\* the caller has the response or the error of call
ProviderCallSettled ==
  /\ apc \in { "returned", "threw" }
  /\ apc' = "idle"
  /\ maxRetries' = 0
  /\ attempt' = 0
  /\ lastError' = "none"
  /\ opLog' = << >>


(***************************************************************************)
(* Part IV.  FunctionRegistry: the registry                                *)
(***************************************************************************)
Names == { "a", "b" }
\* context.userId; "" is a context without a caller id
Users == { "u1", "" }
CategoryEnum == { "ai", "utility", "integration", "analysis", "generation" }
\* limiter.window
Window == 60000
Execs == 1..NExec

NoDef == [ name |-> "none" ]
NoLimiter == [ limit |-> 0, requests |-> << >>, present |-> FALSE ]

\* A definition: the fields of FunctionDefinition the registry acts on.
\* handler names the function object, schemaOk whether the fields the model
\* leaves out pass FunctionDefinitionSchema.
Def(n, cat, fb, retries, auth, rpm, h, ok) ==
  [ name |-> n, category |-> cat, fallback |-> fb, retries |-> retries,
    requiresAuth |-> auth, requestsPerMinute |-> rpm, handler |-> h,
    schemaOk |-> ok, lastUpdated |-> 0 ]

\* the definitions callers register
DefinitionInputs ==
  { Def("a", "ai", "b", 2, TRUE, 1, "a1", TRUE),
    Def("a", "utility", "none", 2, FALSE, 2, "a2", TRUE),
    Def("b", "utility", "a", 2, TRUE, 2, "b1", TRUE),
    Def("b", "ai", "a", 0, TRUE, 1, "b2", TRUE),
    Def("a", "ai", "none", 2, TRUE, 1, "a4", FALSE) }

\* the updates callers hand to updateFunction: a field and its new value
UpdateInputs ==
  { << "name", "a" >>, << "name", "b" >>, << "category", "utility" >>,
    << "category", "no-such-category" >> }

\* FunctionDefinitionSchema.parse(definition) does not throw
SchemaOk(def) == def.schemaOk /\ def.category \in CategoryEnum

NoRegResult == [ outcome |-> "none", name |-> "none" ]

RegistryInit ==
  /\ functions = [ n \in Names |-> NoDef ]
  /\ categories = [ c \in CategoryEnum |-> {} ]
  /\ rateLimiters = [ n \in Names |-> NoLimiter ]
  /\ fallbackChains = [ n \in Names |-> << >> ]
  /\ executionHistory = [ n \in Names |-> << >> ]
  /\ regNow = RegTickMs
  /\ epc = [ e \in Execs |-> "idle" ]
  /\ ectx = [ e \in Execs |-> [ name |-> "none", userId |-> "", retryCount |-> 0,
                                fallbackChain |-> << >> ] ]
  /\ stack = [ e \in Execs |-> << >> ]
  /\ ret = [ e \in Execs |-> [ kind |-> "none", success |-> FALSE, result |-> "null",
                               error |-> "none", fallbackUsed |-> "none",
                               name |-> "none" ] ]
  /\ admitLog = [ u \in Users, n \in Names |-> << >> ]
  /\ lastCheck = [ admitted |-> TRUE, expected |-> TRUE ]
  /\ nExec = 0
  /\ regResult = NoRegResult

\* a lookup that answers an unknown name with some registered definition
GetFunctionOrAny(name) ==
  IF functions[name] # NoDef \/ \A n \in Names : functions[n] = NoDef
  THEN functions[name]
  ELSE functions[CHOOSE n \in Names : functions[n] # NoDef]

\* getFunction(name)
GetFunction(name) == functions[name]

\* initializeRateLimiter(definition): the limiter stored under definition.name
InitializeRateLimiter(definition) ==
  [ limit |-> definition.requestsPerMinute, requests |-> [ u \in Users |-> << >> ],
    present |-> TRUE ]

\* registerFunction that stores the definition whether or not the name exists
NameConflictIgnored(definition) == FALSE

\* registerFunction: this.functions.has(definition.name)
NameConflict(definition) == functions[definition.name] # NoDef

\* how registerFunction(definition) ends: it throws the schema error, throws
\* `Function with name '<name>' already exists`, or returns
RegisterOutcome(definition) ==
  IF ~SchemaOk(definition) THEN "schema_invalid"
  ELSE IF NameConflict(definition) THEN "duplicate_name"
  ELSE "registered"

\* registerFunction(definition)
RegisterFunction(definition) ==
  /\ IF RegisterOutcome(definition) # "registered"
     THEN UNCHANGED << functions, categories, rateLimiters, fallbackChains, admitLog >>
     ELSE /\ functions' = [functions EXCEPT ![definition.name] = definition]
          /\ categories' = [categories EXCEPT ![definition.category] = @ \cup { definition.name }]
          /\ rateLimiters' = [rateLimiters EXCEPT ![definition.name] =
                                InitializeRateLimiter(definition)]
          /\ fallbackChains' = [fallbackChains EXCEPT ![definition.name] =
                                  IF definition.fallback # "none"
                                  THEN << definition.fallback >> ELSE @]
          /\ admitLog' = [ u \in Users, n \in Names |->
                             IF n = definition.name THEN << >> ELSE admitLog[u, n] ]
  /\ regResult' = [ outcome |-> RegisterOutcome(definition), name |-> definition.name ]
  /\ UNCHANGED << executionHistory, regNow, epc, ectx, stack, ret, lastCheck, nExec >>

\* the value unregisterFunction(name) returns
UnregisterReturns(name) == functions[name] # NoDef

\* unregisterFunction(name): returns false for an unknown name
UnregisterFunction(name) ==
  /\ IF functions[name] = NoDef
     THEN UNCHANGED << functions, categories, rateLimiters, fallbackChains, admitLog >>
     ELSE /\ functions' = [functions EXCEPT ![name] = NoDef]
          /\ categories' = [categories EXCEPT ![functions[name].category] = @ \ { name }]
          /\ rateLimiters' = [rateLimiters EXCEPT ![name] = NoLimiter]
          /\ fallbackChains' = [fallbackChains EXCEPT ![name] = << >>]
          /\ admitLog' = [ u \in Users, n \in Names |->
                             IF n = name THEN << >> ELSE admitLog[u, n] ]
  /\ regResult' = NoRegResult
  /\ UNCHANGED << executionHistory, regNow, epc, ectx, stack, ret, lastCheck, nExec >>

\* { ...existing, ...updates, lastUpdated: new Date() }
Merge(existing, upd) ==
  [ [ existing EXCEPT !.lastUpdated = 1 ] EXCEPT ![upd[1]] = upd[2] ]

\* updateFunction(name, updates): returns false for an unknown name and for a
\* merged definition that fails the schema
UpdateFunction(name, upd) ==
  /\ functions' = IF functions[name] # NoDef /\ SchemaOk(Merge(functions[name], upd))
                  THEN [functions EXCEPT ![name] = Merge(@, upd)]
                  ELSE functions
  /\ UNCHANGED << categories, rateLimiters, fallbackChains, executionHistory, regNow,
                  epc, ectx, stack, ret, admitLog, lastCheck, nExec >>
  /\ regResult' = NoRegResult

(***************************************************************************)
(* Part IV.  FunctionRegistry.executeFunction                              *)
(***************************************************************************)
\* recordExecution keeps the last 100 results
HistoryLimit == 100

NoRet == [ kind |-> "none", success |-> FALSE, result |-> "null", error |-> "none",
           fallbackUsed |-> "none", name |-> "none" ]
NoCtx == [ name |-> "none", userId |-> "", retryCount |-> 0, fallbackChain |-> << >> ]

\* throw new Error(...) of executeFunction: `Function '<name>' not found`,
\* `Rate limit exceeded for function '<name>'`, `Authentication required ...`
Threw(err, name) ==
  [ kind |-> "threw", success |-> FALSE, result |-> "null", error |-> err,
    fallbackUsed |-> "none", name |-> name ]

\* executionResult after the handler resolved: the model names the value by
\* the handler that produced it
SuccessResult(def) ==
  [ kind |-> "result", success |-> TRUE, result |-> def.handler, error |-> "none",
    fallbackUsed |-> "none", name |-> def.name ]

\* executionResult after the catch: error.message of the handler's error or of
\* the timeout ("Function execution timed out after <ms>ms")
FailureResult(def, err) ==
  [ kind |-> "result", success |-> FALSE, result |-> "null", error |-> err,
    fallbackUsed |-> "none", name |-> def.name ]

\* a timeout whose error does not say so
CreateTimeoutAnonymous == "handler_error"

\* createTimeout(ms): the rejection that wins the race when the handler is late
CreateTimeout == "timed_out"

\* how the race between the handler and the timeout ends
HandlerOutcomes == { "resolved", "handler_error", "timed_out" }

\* error.message in the catch: the handler's own error, or the timeout's
ErrorMessage(o) == IF o = "timed_out" THEN CreateTimeout ELSE o

Frame(name, def) == [ name |-> name, def |-> def, outcome |-> "pending" ]

\* the timestamps of a list that are inside the window, with none dropped
RecentKeepAll(times, t) == times

\* checkRateLimit: userRequests.filter(time => now - time < limiter.window)
Recent(times, t) ==
  LET InWindow(time) == t - time < Window
  IN  SelectSeq(times, InWindow)

\* a check that reads the list and admits, with the write of the new
\* timestamp lost (what two interleaved checks of the last free slot would do)
CheckRateLimitWriteLost(definition, user, limiters, t) ==
  LET limiter == limiters[definition.name]
  IN  IF ~limiter.present
      THEN [ ok |-> TRUE, limiters |-> limiters ]
      ELSE [ ok |-> Len(Recent(limiter.requests[user], t)) < limiter.limit,
             limiters |-> limiters ]

\* checkRateLimit(definition, context): ok, and the limiters after the call
CheckRateLimit(definition, user, limiters, t) ==
  LET limiter == limiters[definition.name]
  IN  IF ~limiter.present
      THEN [ ok |-> TRUE, limiters |-> limiters ]
      ELSE LET recentRequests == Recent(limiter.requests[user], t)
           IN  IF Len(recentRequests) >= limiter.limit
               THEN [ ok |-> FALSE, limiters |-> limiters ]
               ELSE [ ok |-> TRUE,
                      limiters |-> [limiters EXCEPT ![definition.name].requests[user] =
                                      Append(recentRequests, t)] ]

\* executeFunction(name, context) up to the call of the handler: it throws, or
\* the handler is invoked and raced against the timeout.  log and check are
\* the history of admissions after the call.
Enter(name, user) ==
  LET def == GetFunction(name)
  IN  IF def = NoDef
      THEN [ kind |-> "threw", error |-> "not_found", def |-> NoDef,
             limiters |-> rateLimiters, log |-> admitLog, check |-> lastCheck ]
      ELSE LET chk == CheckRateLimit(def, user, rateLimiters, regNow)
               seen == [ admitted |-> chk.ok,
                         expected |-> Len(admitLog[user, def.name]) < def.requestsPerMinute ]
               log == IF chk.ok
                      THEN [admitLog EXCEPT ![user, def.name] = Append(@, regNow)]
                      ELSE admitLog
           IN  IF ~chk.ok
               THEN [ kind |-> "threw", error |-> "rate_limit", def |-> def,
                      limiters |-> chk.limiters, log |-> log, check |-> seen ]
               ELSE IF def.requiresAuth /\ user = ""
               THEN [ kind |-> "threw", error |-> "auth_required", def |-> def,
                      limiters |-> chk.limiters, log |-> log, check |-> seen ]
               ELSE [ kind |-> "await", error |-> "none", def |-> def,
                      limiters |-> chk.limiters, log |-> log, check |-> seen ]

\* recordExecution that never drops an entry
RecordExecutionKeepAll(history, name, res) ==
  [history EXCEPT ![name] = Append(@, [ success |-> res.success, error |-> res.error ])]

\* recordExecution(name, result)
RecordExecution(history, name, res) ==
  LET entry == [ success |-> res.success, error |-> res.error ]
      pushed == Append(history[name], entry)
  IN  [history EXCEPT ![name] = IF Len(pushed) > HistoryLimit THEN Tail(pushed) ELSE pushed]

\* executeFallback that returns the fallback's result without tagging it
TagFallbackUntagged(res, stk) == res

\* the result on its way back to the caller: every executeFallback it passes
\* through (one per executeFunction call below the top of the stack) sets
\* fallbackUsed to its own fallback name, the outermost last
TagFallback(res, stk) ==
  IF Len(stk) > 1 THEN [res EXCEPT !.fallbackUsed = stk[1].def.fallback] ELSE res

\* a catch that hands every failure of a capability with a fallback over
HandsToFallbackAlways(def, ctx) ==
  def.fallback # "none"

\* the catch of executeFunction: the failure goes to executeFallback
HandsToFallback(def, ctx) ==
  def.fallback # "none" /\ ctx.retryCount < def.retries

\* a caller calls executeFunction(name, context) with a fresh context
RegistryExecuteFunction(e, name, user) ==
  /\ epc[e] = "idle"
  /\ nExec < MaxExecutions
  /\ nExec' = nExec + 1
  /\ ectx' = [ectx EXCEPT ![e] = [ name |-> name, userId |-> user, retryCount |-> 0,
                                  fallbackChain |-> << >> ]]
  /\ LET en == Enter(name, user)
     IN  /\ rateLimiters' = en.limiters
         /\ admitLog' = en.log
         /\ lastCheck' = en.check
         /\ IF en.kind = "threw"
            THEN /\ epc' = [epc EXCEPT ![e] = "settled"]
                 /\ ret' = [ret EXCEPT ![e] = Threw(en.error, name)]
                 /\ UNCHANGED stack
            ELSE /\ epc' = [epc EXCEPT ![e] = "awaiting"]
                 /\ stack' = [stack EXCEPT ![e] = << Frame(name, en.def) >>]
                 /\ UNCHANGED ret
  /\ regResult' = NoRegResult
  /\ UNCHANGED << functions, categories, fallbackChains, executionHistory, regNow >>

\* the race of the innermost executeFunction call ends: the handler resolved,
\* the handler rejected, or the timeout fired first
HandlerSettles(e, o) ==
  /\ epc[e] = "awaiting"
  /\ LET top == stack[e][Len(stack[e])]
         stk == [stack[e] EXCEPT ![Len(stack[e])].outcome = o]
         user == ectx[e].userId
         Finish(res, record) ==
           /\ epc' = [epc EXCEPT ![e] = "settled"]
           /\ ret' = [ret EXCEPT ![e] = TagFallback(res, stk)]
           /\ stack' = [stack EXCEPT ![e] = stk]
           /\ executionHistory' = IF record
                                  THEN RecordExecution(executionHistory, top.name, res)
                                  ELSE executionHistory
     IN  /\ IF o = "resolved"
            THEN /\ Finish(SuccessResult(top.def), TRUE)
                 /\ UNCHANGED << ectx, rateLimiters, admitLog, lastCheck >>
            ELSE IF ~HandsToFallback(top.def, ectx[e])
            THEN /\ Finish(FailureResult(top.def, ErrorMessage(o)), TRUE)
                 /\ UNCHANGED << ectx, rateLimiters, admitLog, lastCheck >>
            ELSE IF GetFunction(top.def.fallback) = NoDef
            THEN /\ Finish(FailureResult(top.def, ErrorMessage(o)), FALSE)
                 /\ UNCHANGED << ectx, rateLimiters, admitLog, lastCheck >>
            ELSE LET en == Enter(top.def.fallback, user)
                 IN  /\ ectx' = [ectx EXCEPT ![e].retryCount = @ + 1,
                                             ![e].fallbackChain = Append(@, top.def.fallback)]
                     /\ rateLimiters' = en.limiters
                     /\ admitLog' = en.log
                     /\ lastCheck' = en.check
                     /\ IF en.kind = "threw"
                        THEN Finish(FailureResult(top.def, ErrorMessage(o)), FALSE)
                        ELSE /\ stack' = [stack EXCEPT ![e] =
                                            Append(stk, Frame(top.def.fallback, en.def))]
                             /\ UNCHANGED << epc, ret, executionHistory >>
  /\ UNCHANGED << functions, categories, fallbackChains, regNow, nExec, regResult >>

\* a handler that lost the race against the timeout settles while the
\* execution is still under way or its result not yet picked up: nobody awaits it
HandlerSettlesLate(e) ==
  /\ epc[e] # "idle"
  /\ \E i \in 1..Len(stack[e]) :
       /\ stack[e][i].outcome = "timed_out"
       /\ stack' = [stack EXCEPT ![e][i].outcome = "settled_late"]
  /\ UNCHANGED << functions, categories, rateLimiters, fallbackChains, executionHistory,
                  regNow, epc, ectx, ret, admitLog, lastCheck, nExec, regResult >>

\* the caller has the result or the error of executeFunction
ExecutionReturns(e) ==
  /\ epc[e] = "settled"
  /\ epc' = [epc EXCEPT ![e] = "idle"]
  /\ ectx' = [ectx EXCEPT ![e] = NoCtx]
  /\ stack' = [stack EXCEPT ![e] = << >>]
  /\ ret' = [ret EXCEPT ![e] = NoRet]
  /\ lastCheck' = [ admitted |-> TRUE, expected |-> TRUE ]
  /\ UNCHANGED << functions, categories, rateLimiters, fallbackChains, executionHistory,
                  regNow, admitLog, nExec, regResult >>

\* time passes; the history of admissions keeps the calls of the last window
RegTick ==
  /\ regNow < RegTickMs * (MaxRegTicks + 1)
  /\ regNow' = regNow + RegTickMs
  /\ admitLog' = [ u \in Users, n \in Names |->
                     LET InWindow(time) == regNow' - time < Window
                     IN  SelectSeq(admitLog[u, n], InWindow) ]
  /\ UNCHANGED << functions, categories, rateLimiters, fallbackChains, executionHistory,
                  epc, ectx, stack, ret, lastCheck, nExec >>
  /\ regResult' = NoRegResult

(***************************************************************************)
(* Part V.  MessageRouter.routeMessage                                     *)
(***************************************************************************)
\* plans: dailyMessageLimit, contextSize, and contextReductionFactor in
\* hundredths
PlanIds == { "free", "basic" }
Plan(id) ==
  IF id = "free"
  THEN [ id |-> "free", dailyMessageLimit |-> 10, contextSize |-> 5,
         contextReductionFactor |-> 50 ]
  ELSE [ id |-> "basic", dailyMessageLimit |-> 50, contextSize |-> 15,
         contextReductionFactor |-> 70 ]

\* personalities: allowedTasks and defaultModel
PersonalityIds == { "researcher", "mitra" }
Personality(id) ==
  IF id = "researcher"
  THEN [ id |-> "researcher",
         allowedTasks |-> { "research", "analysis", "fact-checking", "summarization",
                            "web-search" },
         defaultModel |-> "gpt-4-turbo" ]
  ELSE [ id |-> "mitra",
         allowedTasks |-> { "conversation", "emotional-support", "practical-help",
                            "entertainment", "general" },
         defaultModel |-> "gpt-3.5-turbo" ]

ModelIds == { Personality(id).defaultModel : id \in PersonalityIds }

\* the rows of user_profiles: caller -> plan
ProfilePlan(userId) ==
  IF userId = "alice" THEN "free" ELSE IF userId = "bob" THEN "basic" ELSE "legacy"
KnownUsers == { "alice", "bob", "carol" }

\* the requests callers send; task "absent" is a request without clientContext.task
RouteRequests ==
  [ userId : KnownUsers \cup { "nobody" },
    personalityId : PersonalityIds \cup { "guru" },
    task : { "research", "conversation", "absent" },
    conversationId : BOOLEAN ]

NoRequest == [ userId |-> "none", personalityId |-> "none", task |-> "none",
               conversationId |-> FALSE ]
NoLocal == [ plan |-> "none", fallbackApplied |-> FALSE, contextReduction |-> 100,
             maxMessages |-> -1, history |-> << >>, modelId |-> "none",
             response |-> "none", fallbackUsed |-> FALSE ]
NoRouteResult == [ kind |-> "none", error |-> << >>, message |-> "none",
                   fallbackUsed |-> FALSE ]
NoCalls == [ provider |-> 0, storeVector |-> 0, incrementUsage |-> 0,
             dailyMessages |-> [ u \in KnownUsers |-> 0 ] ]

MessageInit ==
  /\ mpc = "idle"
  /\ mreq = NoRequest
  /\ mlocal = NoLocal
  /\ mresult = NoRouteResult
  /\ mem = "none"
  /\ mcalls = NoCalls
  /\ mstart = NoCalls
  /\ nRoutes = 0

\* request.clientContext?.task || 'chat'
TaskOf(req) == IF req.task = "absent" THEN "chat" ELSE req.task

\* the catch of routeMessage: throw new Error(`Failed to route message: ${error.message}`)
RouteThrows(message) ==
  /\ mpc' = "threw"
  /\ mresult' = [ NoRouteResult EXCEPT !.kind = "error",
                                       !.error = << "Failed to route message" >> \o message ]

\* public routeMessage(request)
RouteMessage(req) ==
  /\ mpc = "idle"
  /\ nRoutes < MaxRoutes
  /\ nRoutes' = nRoutes + 1
  /\ mpc' = "validateUser"
  /\ mreq' = req
  /\ mlocal' = NoLocal
  /\ mresult' = NoRouteResult
  /\ mstart' = mcalls
  /\ UNCHANGED << mem, mcalls >>

\* personality.allowedTasks.includes(task), with every task allowed
TaskAllowedAlways(personalityId, task) == TRUE

\* personality.allowedTasks.includes(task)
TaskAllowed(personalityId, task) == task \in Personality(personalityId).allowedTasks

\* steps 1 and 2: validateUser (read is how getUserProfile ends), getPlan,
\* getPersonality, the task check
ValidateUserAndRequest(read) ==
  /\ mpc = "validateUser"
  /\ read \in (IF mreq.userId \in KnownUsers THEN { "row", "error" } ELSE { "null", "error" })
  /\ IF read = "error"
     THEN RouteThrows(<< "User validation failed", "database error" >>) /\ UNCHANGED mlocal
     ELSE IF read = "null"
     THEN RouteThrows(<< "User validation failed", "User not found" >>) /\ UNCHANGED mlocal
     ELSE IF ProfilePlan(mreq.userId) \notin PlanIds
     THEN RouteThrows(<< "Invalid user plan" >>) /\ UNCHANGED mlocal
     ELSE IF mreq.personalityId \notin PersonalityIds
     THEN RouteThrows(<< "Invalid personality" >>) /\ UNCHANGED mlocal
     ELSE IF ~TaskAllowed(mreq.personalityId, TaskOf(mreq))
     THEN /\ RouteThrows(<< "Personality does not support task", mreq.personalityId,
                            TaskOf(mreq) >>)
          /\ UNCHANGED mlocal
     ELSE /\ mpc' = "checkUsageLimits"
          /\ mlocal' = [mlocal EXCEPT !.plan = ProfilePlan(mreq.userId)]
          /\ UNCHANGED mresult
  /\ UNCHANGED << mreq, mem, mcalls, mstart, nRoutes >>

\* what getUserUsage resolves with, as checkUsageLimits reads it: the last
\* reset is today or not, the daily count has reached the plan's limit or not
UsageReads ==
  { [ ok |-> FALSE, today |-> FALSE, atLimit |-> FALSE ] }
    \cup [ ok : { TRUE }, today : BOOLEAN, atLimit : BOOLEAN ]

\* incrementUsage(userId, { dailyMessages: n, ... }) when the upsert succeeds:
\* the row takes the value handed over
IncrementUsage(daily, userId, n) == [daily EXCEPT ![userId] = n]

\* checkUsageLimits(user.id, plan): every failure inside is caught
CheckUsageLimits(usage, writeOk) ==
  /\ mpc = "checkUsageLimits"
  /\ LET resets == usage.ok /\ ~usage.today
         applies == usage.ok /\ usage.today /\ usage.atLimit
     IN  /\ (~resets => writeOk)
         /\ mcalls' = [mcalls EXCEPT
                         !.incrementUsage = IF resets /\ writeOk THEN @ + 1 ELSE @,
                         !.dailyMessages = IF resets /\ writeOk
                                           THEN IncrementUsage(@, mreq.userId, 0) ELSE @]
         /\ mlocal' = [mlocal EXCEPT
                         !.fallbackApplied = applies,
                         !.contextReduction =
                           IF applies THEN Plan(mlocal.plan).contextReductionFactor ELSE 100]
  /\ mpc' = "buildContext"
  /\ UNCHANGED << mreq, mresult, mem, mstart, nRoutes >>

\* getConversationHistory(conversationId, maxMessages): returns []
GetConversationHistory(maxMessages) == << >>

\* selectModel without a forced model: getRecommendedModel gives the
\* personality's default model or nothing, and nothing falls back to it
SelectModel(personalityId) == Personality(personalityId).defaultModel

\* steps 4 to 6: buildContext, selectModel, the provider request
BuildContext ==
  /\ mpc = "buildContext"
  /\ LET maxMessages == IF mreq.conversationId THEN Plan(mlocal.plan).contextSize ELSE -1
     IN  mlocal' = [mlocal EXCEPT
                      !.maxMessages = maxMessages,
                      !.history = IF mreq.conversationId
                                  THEN GetConversationHistory(maxMessages) ELSE << >>,
                      !.modelId = SelectModel(mreq.personalityId)]
  /\ mpc' = "call"
  /\ UNCHANGED << mreq, mresult, mem, mcalls, mstart, nRoutes >>

\* step 7: this.providerManager.call resolves with a response or rejects
\* after the primary and every fallback failed; extractInsights and
\* storeMessage, which only build values, follow
ProviderManagerCall(ok, viaFallback) ==
  /\ mpc = "call"
  /\ mcalls' = [mcalls EXCEPT !.provider = @ + 1]
  /\ IF ok
     THEN /\ mlocal' = [mlocal EXCEPT !.response = "content", !.fallbackUsed = viaFallback]
          /\ mpc' = "storeInVectorDB"
          /\ UNCHANGED mresult
     ELSE /\ ~viaFallback
          /\ RouteThrows(<< "Provider manager error", "All providers failed for model",
                            mlocal.modelId >>)
          /\ mlocal' = [mlocal EXCEPT !.response = "all_failed"]
  /\ UNCHANGED << mreq, mem, mstart, nRoutes >>

\* step 10: storeInVectorDB: two storeVector calls inside one try
StoreInVectorDB(stored) ==
  /\ mpc = "storeInVectorDB"
  /\ mcalls' = [mcalls EXCEPT !.storeVector = @ + stored]
  /\ mpc' = "updateUsage"
  /\ UNCHANGED << mreq, mlocal, mresult, mem, mstart, nRoutes >>

\* step 11: updateUsage: incrementUsage inside a try
UpdateUsage(ok) ==
  /\ mpc = "updateUsage"
  /\ mcalls' = [mcalls EXCEPT
                  !.incrementUsage = IF ok THEN @ + 1 ELSE @,
                  !.dailyMessages = IF ok THEN IncrementUsage(@, mreq.userId, 1) ELSE @]
  /\ mpc' = "extractMemories"
  /\ UNCHANGED << mreq, mlocal, mresult, mem, mstart, nRoutes >>

\* the response routeMessage returns
RouteResponse ==
  [ NoRouteResult EXCEPT !.kind = "response", !.message = mlocal.response,
                         !.fallbackUsed = mlocal.fallbackUsed ]

\* routeMessage with `await this.extractMemories(...)`
ExtractionAwaitedAlways == TRUE

\* step 12 is `this.extractMemories(...)`: the promise is not awaited
ExtractionAwaited == FALSE

\* step 12 and the return statement
ExtractMemoriesAndReturn ==
  /\ mpc = "extractMemories"
  /\ mem' = "pending"
  /\ IF ExtractionAwaited
     THEN mpc' = "awaitMemories" /\ UNCHANGED mresult
     ELSE mpc' = "returned" /\ mresult' = RouteResponse
  /\ UNCHANGED << mreq, mlocal, mcalls, mstart, nRoutes >>

\* the promise of extractMemories settles
ExtractMemoriesSettles(ok) ==
  /\ mem = "pending"
  /\ mem' = IF ok THEN "resolved" ELSE "rejected"
  /\ IF mpc = "awaitMemories"
     THEN IF ok THEN mpc' = "returned" /\ mresult' = RouteResponse
                ELSE RouteThrows(<< "memory extraction failed" >>)
     ELSE UNCHANGED << mpc, mresult >>
  /\ UNCHANGED << mreq, mlocal, mcalls, mstart, nRoutes >>

\* the caller has the response or the error
RouteDone ==
  /\ mpc \in { "returned", "threw" }
  /\ mpc' = "idle"
  /\ mreq' = NoRequest
  /\ mlocal' = NoLocal
  /\ mresult' = NoRouteResult
  /\ mstart' = mcalls
  /\ UNCHANGED << mem, mcalls, nRoutes >>

(***************************************************************************)
(* Part VI.  EventPipeline.calculatePersonalityScore                       *)
(***************************************************************************)
\* the keys of the scores object, in the order they are written
ScoreKeys == << "researcher", "visheshagya", "shikshak", "mitra" >>

\* what determinePersonality hands over: event.type, userAnalysis.emotionalState
\* and userContext.preferences.learningMode ("missing": no preferences object)
ScoreInputs ==
  [ eventType : EventTypeEnum,
    emotionalState : { "stressed", "neutral", "happy" },
    learningMode : { "structured", "visual", "none", "missing" } ]

ScoreInit == scored = << >>

\* the scores object after the scoring logic
Scores(input) ==
  [ k \in { ScoreKeys[i] : i \in 1..Len(ScoreKeys) } |->
      IF input.eventType # "chat" THEN 0
      ELSE IF k = "mitra" THEN 2
      ELSE IF k = "visheshagya" /\ input.emotionalState = "stressed" THEN 3
      ELSE IF k = "shikshak" /\ input.learningMode = "structured" THEN 2
      ELSE 0 ]

\* Object.entries(scores)
Entries(scores) ==
  [ i \in 1..Len(ScoreKeys) |-> [ personality |-> ScoreKeys[i], score |-> scores[ScoreKeys[i]] ] ]

\* the entry goes behind every entry of the sorted sequence whose score is
\* not below its own
RECURSIVE InsertByScore(_, _)
InsertByScore(entry, sorted) ==
  IF sorted = << >> THEN << entry >>
  ELSE IF Head(sorted).score >= entry.score
  THEN << Head(sorted) >> \o InsertByScore(entry, Tail(sorted))
  ELSE << entry >> \o sorted

\* the entry goes in front of the entries with the same score
RECURSIVE InsertByScoreInFront(_, _)
InsertByScoreInFront(entry, sorted) ==
  IF sorted = << >> THEN << entry >>
  ELSE IF Head(sorted).score > entry.score
  THEN << Head(sorted) >> \o InsertByScoreInFront(entry, Tail(sorted))
  ELSE << entry >> \o sorted

\* a sort by descending score that puts equal scores in reverse order
RECURSIVE SortByScoreReversingTies(_)
SortByScoreReversingTies(entries) ==
  IF entries = << >> THEN << >>
  ELSE InsertByScoreInFront(entries[Len(entries)],
                            SortByScoreReversingTies(SubSeq(entries, 1, Len(entries) - 1)))

\* .sort(([,a], [,b]) => b - a): descending by score; Array.prototype.sort is
\* stable, equal scores keep their order
RECURSIVE SortByScore(_)
SortByScore(entries) ==
  IF entries = << >> THEN << >>
  ELSE InsertByScore(entries[Len(entries)],
                     SortByScore(SubSeq(entries, 1, Len(entries) - 1)))

\* calculatePersonalityScore(context): reading learningMode of a missing
\* preferences object throws for a chat event
CalculatePersonalityScore(input) ==
  LET sorted == SortByScore(Entries(Scores(input)))
      threw == input.eventType = "chat" /\ input.learningMode = "missing"
      call == [ input |-> input,
                topChoice |-> IF threw THEN "threw" ELSE sorted[1].personality,
                scores |-> IF threw THEN << >> ELSE sorted ]
  IN  scored' = IF scored = << >> THEN << call >> ELSE << call, scored[1] >>

(***************************************************************************)
(* The specifications.                                                     *)
(***************************************************************************)
\* the state after both objects are constructed
Init ==
  /\ PipelineInit /\ RouterInit /\ AdapterInit /\ RegistryInit /\ MessageInit
  /\ ScoreInit

PipelineNext ==
  \/ (\E e \in Events : ProcessEvent(e)) /\ UNCHANGED << routerVars, adapterVars, registryVars, msgVars, scored, observer >>
  \/ StageStart /\ UNCHANGED << routerVars, adapterVars, registryVars, msgVars, scored, observer >>
  \/ ValidateEvent /\ UNCHANGED << routerVars, adapterVars, registryVars, msgVars, scored, observer >>
  \/ EnrichContext /\ UNCHANGED << routerVars, adapterVars, registryVars, msgVars, scored, observer >>
  \/ AnalyzeUserContext /\ UNCHANGED << routerVars, adapterVars, registryVars, msgVars, scored, observer >>
  \/ DeterminePersonality /\ UNCHANGED << routerVars, adapterVars, registryVars, msgVars, scored, observer >>
  \/ ExecuteFunction /\ UNCHANGED << routerVars, adapterVars, registryVars, msgVars, scored, observer >>
  \/ UpdateShortTermMemory /\ UNCHANGED << routerVars, adapterVars, registryVars, msgVars, scored, observer >>
  \/ UpdateLongTermMemory /\ UNCHANGED << routerVars, adapterVars, registryVars, msgVars, scored, observer >>
  \/ OpaqueStep /\ UNCHANGED << routerVars, adapterVars, registryVars, msgVars, scored, observer >>
  \/ StageComplete /\ UNCHANGED << routerVars, adapterVars, registryVars, msgVars, scored, observer >>

\* processEvent alone
SpecPipeline == Init /\ [][PipelineNext]_vars

ObservedNext ==
  \/ PipelineNext
  \/ /\ \E kind \in ObserverKinds : Subscribe(kind)
     /\ UNCHANGED << pipeVars, routerVars, adapterVars, registryVars, msgVars, scored >>

\* processEvent with a listener a client subscribed to the stage notifications
SpecObserved == Init /\ [][ObservedNext]_vars

RouterNext ==
  \/ /\ \E r \in Reqs, m \in RequestModels, pl \in RequestPlans, f \in RequestForce :
          /\ warm => (r = 1 /\ m = WarmModel /\ pl = WarmPlan /\ f = "none")
          /\ Call(r, m, pl, f)
     /\ UNCHANGED << warm, pipeVars, adapterVars, registryVars, msgVars, scored, observer >>
  \/ (\E r \in Reqs : CbRead(r)) /\ UNCHANGED << warm, pipeVars, adapterVars, registryVars, msgVars, scored, observer >>
  \/ (\E r \in Reqs : HalfOpenWrite(r)) /\ UNCHANGED << warm, pipeVars, adapterVars, registryVars, msgVars, scored, observer >>
  \/ (\E r \in Reqs : ProbeInvoke(r)) /\ UNCHANGED << warm, pipeVars, adapterVars, registryVars, msgVars, scored, observer >>
  \/ /\ \E r \in Reqs, ok \in BOOLEAN :
          /\ warm => ~ok
          /\ AdapterReturn(r, ok)
     /\ UNCHANGED << warm, pipeVars, adapterVars, registryVars, msgVars, scored, observer >>
  \/ (\E r \in Reqs : UpdRead(r)) /\ UNCHANGED << warm, pipeVars, adapterVars, registryVars, msgVars, scored, observer >>
  \/ (\E r \in Reqs : UpdWrite(r)) /\ UNCHANGED << warm, pipeVars, adapterVars, registryVars, msgVars, scored, observer >>
  \/ (\E r \in Reqs : Return(r)) /\ UNCHANGED << warm, pipeVars, adapterVars, registryVars, msgVars, scored, observer >>
  \/ (~warm /\ Tick) /\ UNCHANGED << warm, pipeVars, adapterVars, registryVars, msgVars, scored, observer >>
  \/ EndWarm /\ UNCHANGED << pipeVars, adapterVars, registryVars, msgVars, scored, observer >>

\* concurrent calls of ProviderManager.call sharing the circuit state in Redis
SpecRouter == Init /\ [][RouterNext]_vars

\* the steps of call that wait for Redis only: every read and write of the
\* circuit state gets its reply
ManagerStep(r) ==
  /\ CbRead(r) \/ HalfOpenWrite(r) \/ ProbeInvoke(r) \/ UpdRead(r) \/ UpdWrite(r)
  /\ UNCHANGED << warm, pipeVars, adapterVars, registryVars, msgVars, scored, observer >>

\* SpecRouter where call takes each of its own steps in time; nothing is
\* assumed of the adapters, which may never answer
SpecRouterFair ==
  Init /\ [][RouterNext]_vars /\ \A r \in Reqs : WF_vars(ManagerStep(r))

AdapterNext ==
  \/ /\ \E requestValid \in BOOLEAN, retries \in RetriesOptions :
          ProviderCall(requestValid, retries)
     /\ UNCHANGED << pipeVars, routerVars, registryVars, msgVars, scored, observer >>
  \/ (\E o \in OperationOutcomes : OperationSettles(o)) /\ UNCHANGED << pipeVars, routerVars, registryVars, msgVars, scored, observer >>
  \/ BackoffElapsed /\ UNCHANGED << pipeVars, routerVars, registryVars, msgVars, scored, observer >>
  \/ ProviderCallSettled /\ UNCHANGED << pipeVars, routerVars, registryVars, msgVars, scored, observer >>

\* one call of a provider adapter
SpecAdapter == Init /\ [][AdapterNext]_vars

\* registerFunction is called while no execution is under way
ExecutionsNext ==
  \/ /\ \A e \in Execs : epc[e] = "idle"
     /\ \E definition \in DefinitionInputs : RegisterFunction(definition)
     /\ UNCHANGED << pipeVars, routerVars, adapterVars, msgVars, scored, observer >>
  \/ (\E name \in Names : UnregisterFunction(name))
       /\ UNCHANGED << pipeVars, routerVars, adapterVars, msgVars, scored, observer >>
  \/ (\E e \in Execs, name \in Names, user \in Users : RegistryExecuteFunction(e, name, user))
       /\ UNCHANGED << pipeVars, routerVars, adapterVars, msgVars, scored, observer >>
  \/ (\E e \in Execs, o \in HandlerOutcomes : HandlerSettles(e, o))
       /\ UNCHANGED << pipeVars, routerVars, adapterVars, msgVars, scored, observer >>
  \/ (\E e \in Execs : HandlerSettlesLate(e))
       /\ UNCHANGED << pipeVars, routerVars, adapterVars, msgVars, scored, observer >>
  \/ (\E e \in Execs : ExecutionReturns(e))
       /\ UNCHANGED << pipeVars, routerVars, adapterVars, msgVars, scored, observer >>
  \/ RegTick /\ UNCHANGED << pipeVars, routerVars, adapterVars, msgVars, scored, observer >>

\* registrations, unregistrations and executions of capabilities
SpecExecutions == Init /\ [][ExecutionsNext]_vars

\* definitions whose fallbacks form cycles: a capability that names itself,
\* and two capabilities that name each other
CyclicDefinitions ==
  { Def("a", "ai", "a", 2, FALSE, 3, "a5", TRUE),
    Def("a", "ai", "b", 2, FALSE, 3, "a6", TRUE),
    Def("b", "utility", "a", 2, FALSE, 3, "b6", TRUE),
    Def("b", "utility", "b", 1, FALSE, 3, "b5", TRUE) }

\* the race of execution e between its handler and createTimeout ends
RaceSettles(e) ==
  /\ \E o \in HandlerOutcomes : HandlerSettles(e, o)
  /\ UNCHANGED << pipeVars, routerVars, adapterVars, msgVars, scored, observer >>

FallbacksNext ==
  \/ /\ \A e \in Execs : epc[e] = "idle"
     /\ \E definition \in CyclicDefinitions : RegisterFunction(definition)
     /\ UNCHANGED << pipeVars, routerVars, adapterVars, msgVars, scored, observer >>
  \/ /\ \A e \in Execs : epc[e] = "idle"
     /\ \E name \in Names : UnregisterFunction(name)
     /\ UNCHANGED << pipeVars, routerVars, adapterVars, msgVars, scored, observer >>
  \/ (\E e \in Execs, name \in Names : RegistryExecuteFunction(e, name, "u1"))
       /\ UNCHANGED << pipeVars, routerVars, adapterVars, msgVars, scored, observer >>
  \/ (\E e \in Execs : RaceSettles(e))
  \/ (\E e \in Execs : ExecutionReturns(e))
       /\ UNCHANGED << pipeVars, routerVars, adapterVars, msgVars, scored, observer >>

\* executions of capabilities with cyclic fallbacks; Promise.race with
\* createTimeout settles even when the handler never does
SpecFallbacks ==
  Init /\ [][FallbacksNext]_vars /\ \A e \in Execs : WF_vars(RaceSettles(e))

\* the results handed to recordExecution for one capability: a success after
\* every two failures, so that neighbouring entries can be told apart
NextResult(h) ==
  LET n == Len(h)
      ok == n < 2 \/ (~h[n].success /\ ~h[n - 1].success)
  IN  [ success |-> ok, error |-> IF ok THEN "none" ELSE "handler_error" ]

\* recordExecution(name, result) at the end of an execution of name
RecordOutcome(name) ==
  /\ executionHistory' = RecordExecution(executionHistory, name,
                                          NextResult(executionHistory[name]))
  /\ UNCHANGED << functions, categories, rateLimiters, fallbackChains, regNow, epc,
                  ectx, stack, ret, admitLog, lastCheck, nExec, regResult >>

HistoryNext ==
  (\E name \in Names : RecordOutcome(name))
    /\ UNCHANGED << pipeVars, routerVars, adapterVars, msgVars, scored, observer >>

\* long runs of recorded executions of the capabilities
SpecHistory == Init /\ [][HistoryNext]_vars

RegistryNext ==
  \/ /\ \E definition \in DefinitionInputs : RegisterFunction(definition)
     /\ UNCHANGED << pipeVars, routerVars, adapterVars, msgVars, scored, observer >>
  \/ (\E name \in Names : UnregisterFunction(name))
       /\ UNCHANGED << pipeVars, routerVars, adapterVars, msgVars, scored, observer >>
  \/ (\E name \in Names, upd \in UpdateInputs : UpdateFunction(name, upd))
       /\ UNCHANGED << pipeVars, routerVars, adapterVars, msgVars, scored, observer >>

\* the operations that change the set of capabilities, updateFunction included
SpecRegistry == Init /\ [][RegistryNext]_vars

MessageNext ==
  \/ (\E req \in RouteRequests : RouteMessage(req))
       /\ UNCHANGED << pipeVars, routerVars, adapterVars, registryVars, scored, observer >>
  \/ (\E read \in { "row", "null", "error" } : ValidateUserAndRequest(read))
       /\ UNCHANGED << pipeVars, routerVars, adapterVars, registryVars, scored, observer >>
  \/ (\E usage \in UsageReads, writeOk \in BOOLEAN : CheckUsageLimits(usage, writeOk))
       /\ UNCHANGED << pipeVars, routerVars, adapterVars, registryVars, scored, observer >>
  \/ BuildContext /\ UNCHANGED << pipeVars, routerVars, adapterVars, registryVars, scored, observer >>
  \/ (\E ok \in BOOLEAN, viaFallback \in BOOLEAN : ProviderManagerCall(ok, viaFallback))
       /\ UNCHANGED << pipeVars, routerVars, adapterVars, registryVars, scored, observer >>
  \/ (\E stored \in 0..2 : StoreInVectorDB(stored))
       /\ UNCHANGED << pipeVars, routerVars, adapterVars, registryVars, scored, observer >>
  \/ (\E ok \in BOOLEAN : UpdateUsage(ok))
       /\ UNCHANGED << pipeVars, routerVars, adapterVars, registryVars, scored, observer >>
  \/ ExtractMemoriesAndReturn /\ UNCHANGED << pipeVars, routerVars, adapterVars, registryVars, scored, observer >>
  \/ (\E ok \in BOOLEAN : ExtractMemoriesSettles(ok))
       /\ UNCHANGED << pipeVars, routerVars, adapterVars, registryVars, scored, observer >>
  \/ RouteDone /\ UNCHANGED << pipeVars, routerVars, adapterVars, registryVars, scored, observer >>

\* routeMessage calls, one after the other
SpecMessage == Init /\ [][MessageNext]_vars

ScoreNext ==
  /\ \E input \in ScoreInputs : CalculatePersonalityScore(input)
  /\ UNCHANGED << pipeVars, routerVars, adapterVars, registryVars, msgVars, observer >>

\* calls of calculatePersonalityScore
SpecScore == Init /\ [][ScoreNext]_vars

(***************************************************************************)
(* Part I.  Properties of processEvent.                                    *)
(***************************************************************************)
FixedStageOrder == << "ingest", "validate", "context_analysis",
                      "personality_routing", "function_execution", "memory_update",
                      "response_generation", "feedback_loop" >>

IsStageStart(x) == x[1] = "stage-start"
IsNotification(x) == x[1] \in {"stage-start", "stage-complete"}
StageStarts == SelectSeq(trace, IsStageStart)
Notifications == SelectSeq(trace, IsNotification)
\* the positions of the trace holding a step of the stage
StepsOf(stage) == { i \in 1..Len(trace) : trace[i][1] = "step" /\ trace[i][2] = stage }

\* C1: the stage-start notifications of an event are a prefix of the fixed order
\* Ingest, Validate, ContextAnalysis, PersonalityRouting, CapabilityExecution,
\* MemoryUpdate, ResponseGeneration, FeedbackLoop (so each stage starts at most
\* once and none is skipped or reordered), and an event that completes has
\* started all 8 stages.
C1_StageOrder ==
  /\ Len(StageStarts) <= 8
  /\ \A i \in 1..Len(StageStarts) : StageStarts[i][2] = FixedStageOrder[i]
  /\ ppc = "resolved" => Len(StageStarts) = 8

C1_Witness ==
  /\ ppc = "resolved"
  /\ Len(StageStarts) = 8
  /\ StageStarts[8][2] = "feedback_loop"

\* C2: notifications are paired: they alternate stage-start(s), stage-complete(s)
\* for the same stage s, so a stage-complete always follows the stage-start of
\* its stage and precedes the next stage-start; every step of a stage runs
\* after the stage-start and before the stage-complete of that stage, which is
\* emitted only after all steps of the stage; a completed event has emitted
\* exactly 16 notifications.
C2_PairedNotifications ==
  /\ \A i \in 1..Len(Notifications) :
       IF i % 2 = 1
       THEN Notifications[i][1] = "stage-start"
       ELSE Notifications[i] = << "stage-complete", Notifications[i - 1][2] >>
  /\ \A i \in 1..Len(trace) :
       /\ trace[i][1] = "step" =>
            /\ \E j \in 1..(i - 1) : trace[j] = << "stage-start", trace[i][2] >>
            /\ \A j \in 1..(i - 1) : trace[j] # << "stage-complete", trace[i][2] >>
       /\ trace[i][1] = "stage-complete" =>
            /\ \A k \in StepsOf(trace[i][2]) : k < i
            /\ Cardinality(StepsOf(trace[i][2])) = Len(Pipelines(trace[i][2]))
  /\ ppc = "resolved" =>
       /\ Len(Notifications) = 16
       /\ Len(StageStarts) = 8

C2_Witness ==
  /\ ppc = "resolved"
  /\ Len(Notifications) = 16
  /\ Len(trace) = 16 + 25

\* C3: when a step fails, that step is the last thing of the pipeline that ran:
\* no later step, no stage-start of a later stage and no stage-complete of the
\* failing stage follow it, and processEvent rejects (an event with a failed
\* step is never resolved).
C3_FailureAborts ==
  /\ errors # << >> => ppc = "rejected"
  /\ ppc = "rejected" =>
       /\ failedStep # "none"
       /\ Len(trace) > 0
       /\ trace[Len(trace)] = << "step", CurStage, failedStep >>
       /\ \A i \in 1..Len(trace) : trace[i] # << "stage-complete", CurStage >>
       /\ \A k \in (stageIdx + 1)..Len(Stages) :
            \A i \in 1..Len(trace) : trace[i][2] # Stages[k]

\* a step in the middle of a stage in the middle of the pipeline failed
C3_Witness ==
  /\ ppc = "rejected"
  /\ failedStep = "analyzeConversationContext"
  /\ CurStage = "context_analysis"

MemoryWrites == { "updateShortTermMemory", "updateLongTermMemory" }

\* C4: a failure of a MemoryUpdate write is best-effort: it never rejects
\* processEvent; it is recorded as a warning and the pipeline goes on.
C4_MemoryWriteBestEffort ==
  /\ ppc = "rejected" => failedStep \notin MemoryWrites
  /\ failedStep \in MemoryWrites => warnings # << >>

\* C5: an event that fails schema validation (id not a UUID, type outside the
\* enum, a required field missing) rejects processEvent at the validation
\* step, and no store has been read or written and no capability handler has
\* been invoked for it.
C5_InvalidEventNoSideEffect ==
  (ppc # "idle" /\ ~(event.idIsUuid /\ event.fieldsPresent
                       /\ event.type \in {"chat", "function_call", "memory_update",
                                          "context_shift", "personality_change"})) =>
    /\ ppc # "resolved"
    /\ storeReads = 0
    /\ redisWrites = 0
    /\ chromaWrites = 0
    /\ handlerCalls = 0
    /\ Len(trace) >= 2 => /\ ppc = "rejected"
                          /\ failedStep = "validateEvent"

C5_Witness ==
  /\ ppc = "rejected"
  /\ ~event.idIsUuid
  /\ event.type = "invalid_type"
  /\ failedStep = "validateEvent"
  /\ contextCache # {}

(***************************************************************************)
(* Part II.  Properties of ProviderManager.call and the circuit breaker.   *)
(***************************************************************************)
StatusOf(h) == GetCircuitBreakerState(h).status

\* this step is caller r calling the adapter (provider.call) of provider p
AdapterInvoked(r, p) ==
  /\ rpc[r] # "inflight"
  /\ rpc'[r] = "inflight"
  /\ chain[r][idx[r]] = p

\* a failure of provider p is being recorded in its circuit state
FailureUpdatePending(p) ==
  \E r \in Reqs : /\ rpc[r] \in {"updRead", "updWrite"}
                  /\ outcome[r] \in {"fail", "rejected"}
                  /\ Cur(r) = p

\* C6: once threshold consecutive adapter calls of a provider have failed (and
\* the last failure has been recorded), then until the cooldown is over the
\* provider's circuit is open and no step calls its adapter, whether the
\* provider was tried as primary or as fallback.
C6_OpenAfterThreshold ==
  [][ \A p \in Providers :
        ( /\ consecFails[p] >= Threshold
          /\ now < tripAt[p] + TimeoutMs
          /\ ~FailureUpdatePending(p) ) =>
            /\ StatusOf(redis[p]) = "open"
            /\ \A r \in Reqs : ~AdapterInvoked(r, p) ]_vars

C8_TransitionsOnly ==
  [][ \A p \in Providers :
        LET a == StatusOf(redis[p])
            b == StatusOf(redis'[p])
        IN  /\ a # b =>
                 \/ a = "closed" /\ b = "open" /\ redis'[p].failureCount >= Threshold
                 \/ a = "open" /\ b = "half-open" /\ now >= redis[p].nextAttemptTime
                 \/ a = "half-open" /\ b \in {"closed", "open"}
            /\ b \in {"open", "half-open"} => redis'[p].failureCount >= Threshold ]_vars

\* the probes of provider p in flight: adapter calls made by callers that found
\* the circuit half-open, or open with the cooldown over
ProbesInFlight(p) ==
  { r \in Reqs : rpc[r] = "inflight" /\ probing[r] /\ Cur(r) = p }

\* C9: for each provider at most one probe call of its adapter is in flight at
\* any time.
C9_SingleProbe ==
  \A p \in Providers : Cardinality(ProbesInFlight(p)) <= 1

\* C10: the providers a call has tried are, in order, the first providers of
\* << primary >> \o fallbackChain; every attempt but the last has failed; a
\* response comes from the last provider tried, which succeeded; the
\* all-providers-failed error is raised only when every provider of the chain
\* has been tried and has failed.
C10_FallbackOrder ==
  \A r \in Reqs :
    LET a == attempts[r]
    IN  /\ Len(a) <= Len(chain[r])
        /\ \A i \in 1..Len(a) : a[i][1] = chain[r][i]
        /\ \A i \in 1..(Len(a) - 1) : a[i][2] = "fail"
        /\ rpc[r] \in {"cbRead", "halfOpenWrite", "probeInvoke", "inflight"} =>
             /\ idx[r] = Len(a) + 1
             /\ \A i \in 1..Len(a) : a[i][2] = "fail"
        /\ result[r].kind = "response" =>
             /\ Len(a) >= 1
             /\ a[Len(a)][2] = "ok"
             /\ result[r].providerUsed = a[Len(a)][1]
        /\ result[r].kind = "all-providers-failed" =>
             /\ Len(a) = Len(chain[r])
             /\ \A i \in 1..Len(a) : a[i][2] = "fail"

\* C11: a response of call carries fallbackUsed = FALSE exactly when the provider
\* that served it (the last one tried, whose adapter call succeeded) is the
\* primary, TRUE exactly when it is a provider of the fallback chain;
\* providerUsed names that provider; and with fallbackUsed a reason for the
\* primary's failure is present.
C11_ResponseMetadata ==
  \A r \in Reqs :
    result[r].kind = "response" =>
      LET a == attempts[r]
          served == a[Len(a)][1]
      IN  /\ a[Len(a)][2] = "ok"
          /\ result[r].providerUsed = served
          /\ result[r].fallbackUsed = (Len(a) > 1)
          /\ result[r].fallbackUsed = (served # chain[r][1])
          /\ result[r].fallbackUsed => result[r].fallbackReason # "none"
          /\ ~result[r].fallbackUsed => a[1] = << chain[r][1], "ok" >>

\* a fallback provider served the request after the primary failed
C11_Witness ==
  \E r \in Reqs :
    /\ result[r].kind = "response"
    /\ result[r].fallbackUsed
    /\ result[r].providerUsed = "openai"
    /\ attempts[r][1] = << "perplexity", "fail" >>

\* the sequence s with every element kept at its first occurrence only
RECURSIVE FirstOccurrences(_)
FirstOccurrences(s) ==
  IF s = << >> THEN << >>
  ELSE LET front == FirstOccurrences(SubSeq(s, 1, Len(s) - 1))
           last == s[Len(s)]
       IN  IF \E i \in 1..Len(front) : front[i] = last THEN front
           ELSE Append(front, last)

\* the providers of the models of the plan's downgrade chain, in order, without
\* the primary and without repetition
DowngradeProviders(pl, primary) ==
  LET downgrade == ModelDowngradeChain(pl)
      provs == [ i \in 1..Len(downgrade) |-> ModelProvider(downgrade[i]) ]
      Keep(p) == p # primary /\ p # "none"
  IN  FirstOccurrences(SelectSeq(provs, Keep))

\* C12: for every requested model and plan, the fallback chain call works with
\* is the sequence of providers of the plan's model-downgrade chain, in that
\* order, with the primary removed and no provider appearing more than once.
C12_FallbackChainDeduplicated ==
  [][ \A r \in Reqs, m \in RequestModels, pl \in RequestPlans :
        (Call(r, m, pl, "none") /\ chain'[r] # << >>) =>
          LET primary == chain'[r][1]
              fallbackChain == Tail(chain'[r])
          IN  /\ fallbackChain = DowngradeProviders(pl, primary)
              /\ \A i, j \in 1..Len(fallbackChain) :
                    fallbackChain[i] = fallbackChain[j] => i = j
              /\ \A i \in 1..Len(fallbackChain) : fallbackChain[i] # primary ]_vars

\* after the warm-up calls: every provider of a chain of four was tried and
\* failed, in order
C10_Witness ==
  \E r \in Reqs :
    /\ ~warm
    /\ result[r].kind = "all-providers-failed"
    /\ attempts[r] = << << "perplexity", "fail" >>, << "openai", "fail" >>,
                        << "anthropic", "fail" >>, << "openai", "fail" >> >>

(***************************************************************************)
(* Part III.  Properties of a provider adapter call.                       *)
(***************************************************************************)
\* C13: within one adapter call an attempt of the operation that fails with a
\* validation or authentication error is the last attempt; only an attempt
\* that failed with a timeout or a server error is followed by another.
C13_TerminalErrorsNotRetried ==
  /\ \A i \in 1..(Len(opLog) - 1) : opLog[i] \in RetryableErrors
  /\ apc = "backoff" => lastError \in RetryableErrors

(***************************************************************************)
(* Part IV.  Properties of FunctionRegistry.                               *)
(***************************************************************************)
\* C14: executeFunction of a name that is not registered throws
\* `Function '<name>' not found` for that name, invokes no handler, and
\* leaves the limiters and the history as they were
C14_UnregisteredNameNotFound ==
  [][ \A e \in Execs, name \in Names, user \in Users :
        (RegistryExecuteFunction(e, name, user) /\ functions[name] = NoDef)
          => /\ ret'[e] = Threw("not_found", name)
             /\ epc'[e] = "settled"
             /\ stack' = stack
             /\ rateLimiters' = rateLimiters
             /\ executionHistory' = executionHistory ]_vars

\* a capability that was executed and unregistered since is executed again
C14_Witness ==
  \E e \in Execs :
    /\ ret[e].kind = "threw"
    /\ ret[e].error = "not_found"
    /\ ret[e].name \in Names
    /\ executionHistory[ret[e].name] # << >>
    /\ \E n \in Names : functions[n] # NoDef

\* C15: a call the rate limiter rejects comes back to the caller of
\* executeFunction as a result with success false and the error
\* `Rate limit exceeded`, never as a thrown error
C15_RateLimitIsStructuredResult ==
  \A e \in Execs :
    ret[e].error = "rate_limit" => (ret[e].kind = "result" /\ ~ret[e].success)

\* C16: the rate limiter admits a call by caller u of capability c exactly
\* when fewer than c's requestsPerMinute calls of the same (u, c) were
\* admitted within the preceding window; the timestamps it holds inside the
\* window are those admissions, whatever other callers and capabilities did;
\* a rejected call records nothing
C16_AdmissionMatchesWindow ==
  [][ /\ lastCheck'.admitted = lastCheck'.expected
      /\ \A u \in Users, n \in Names :
            LET Counts(time) == regNow' - time < Window
            IN  functions'[n] # NoDef
                  => SelectSeq(rateLimiters'[n].requests[u], Counts) = admitLog'[u, n]
      /\ (~lastCheck'.admitted /\ functions' = functions)
            => rateLimiters' = rateLimiters ]_vars

\* after the window moved on, a call is rejected while the limiter holds
\* admissions of two capabilities
C16_Witness ==
  /\ lastCheck = [ admitted |-> FALSE, expected |-> FALSE ]
  /\ regNow > RegTickMs
  /\ \E u \in Users : \A n \in Names : admitLog[u, n] # << >>

\* the outermost handler of execution e lost the race against the timeout
TopLevelTimedOut(e) ==
  /\ epc[e] = "settled"
  /\ stack[e] # << >>
  /\ stack[e][1].outcome \in { "timed_out", "settled_late" }

\* C17 as stated: whenever the handler of the executed capability does not
\* resolve within the timeout, executeFunction returns a result with success
\* false and the error `timed out`
C17_TimeoutAlwaysFails ==
  \A e \in Execs :
    TopLevelTimedOut(e)
      => (ret[e].kind = "result" /\ ~ret[e].success /\ ret[e].error = "timed_out")

\* C17 amended: when the handler does not resolve within the timeout and no
\* fallback capability's handler is invoked for the failure, executeFunction
\* returns a result with success false and the error `timed out`; whenever
\* the late handler completes, the returned result stays as it is
C17_TimeoutFailsWithoutFallback ==
  [][ /\ \A e \in Execs :
            (TopLevelTimedOut(e)' /\ Len(stack'[e]) = 1)
              => /\ ret'[e].kind = "result"
                 /\ ~ret'[e].success
                 /\ ret'[e].error = "timed_out"
                 /\ ret'[e].name = ectx'[e].name
      /\ \A e \in Execs :
            HandlerSettlesLate(e) => (ret' = ret /\ executionHistory' = executionHistory) ]_vars

\* a handler that timed out completes after executeFunction built its result
C17_Witness ==
  \E e \in Execs :
    /\ epc[e] = "settled"
    /\ Len(stack[e]) = 1
    /\ stack[e][1].outcome = "settled_late"
    /\ ret[e].error = "timed_out"

\* execution e: the handler of the executed capability failed, the failure
\* went to its fallback, and the fallback's handler resolved
FallbackSucceeded(e) ==
  /\ epc[e] = "settled"
  /\ Len(stack[e]) = 2
  /\ stack[e][1].outcome \in { "handler_error", "timed_out", "settled_late" }
  /\ stack[e][2].outcome = "resolved"

\* C18: when the handler of a capability executed with a fresh context fails
\* and the handler of its registered fallback succeeds, executeFunction
\* returns success true with the fallback's result, fallbackUsed is the
\* fallback's name and the context's fallbackChain holds that one name
C18_FallbackResultReturned ==
  \A e \in Execs :
    FallbackSucceeded(e)
      => /\ ret[e].kind = "result"
         /\ ret[e].success
         /\ ret[e].result = stack[e][2].def.handler
         /\ ret[e].fallbackUsed = stack[e][1].def.fallback
         /\ stack[e][2].name = stack[e][1].def.fallback
         /\ ectx[e].fallbackChain = << stack[e][1].def.fallback >>

\* the fallback of a failed capability resolved
C18_Witness ==
  \E e \in Execs :
    /\ FallbackSucceeded(e)
    /\ stack[e][1].outcome = "handler_error"
    /\ ret[e].fallbackUsed \in Names

\* registerFunction(definition) for a name that is registered leaves the
\* stored definitions, the category index, the limiters and the fallback links
\* as they were
DuplicateLeavesRegistry(definition) ==
  (RegisterFunction(definition) /\ functions[definition.name] # NoDef)
    => /\ functions' = functions
       /\ categories' = categories
       /\ rateLimiters' = rateLimiters
       /\ fallbackChains' = fallbackChains
       /\ regResult'.outcome # "registered"

\* C19 as stated: registerFunction with a name that is already registered
\* fails with the duplicate-name error and leaves the registry unchanged
C19_DuplicateNameError ==
  [][ \A definition \in DefinitionInputs :
        /\ DuplicateLeavesRegistry(definition)
        /\ (RegisterFunction(definition) /\ functions[definition.name] # NoDef)
              => regResult'.outcome = "duplicate_name" ]_vars

\* C19 amended: registerFunction with a name that is already registered fails
\* and leaves the registry unchanged; the error is the duplicate-name error
\* when the definition passes the schema
C19_DuplicateNameRejected ==
  [][ \A definition \in DefinitionInputs :
        /\ DuplicateLeavesRegistry(definition)
        /\ (RegisterFunction(definition) /\ functions[definition.name] # NoDef
               /\ SchemaOk(definition))
              => regResult'.outcome = "duplicate_name" ]_vars

\* a second registration of a name whose limiter holds admissions was rejected
C19_Witness ==
  /\ regResult.outcome = "duplicate_name"
  /\ rateLimiters[regResult.name].requests["u1"] # << >>
  /\ fallbackChains[regResult.name] # << >>

\* C20: after any sequence of registerFunction, updateFunction and
\* unregisterFunction no two stored definitions have the same name, and
\* getFunction of a stored definition's name returns that definition
C20_NamesUnique ==
  /\ \A k1, k2 \in Names :
        (functions[k1] # NoDef /\ functions[k2] # NoDef
           /\ functions[k1].name = functions[k2].name) => k1 = k2
  /\ \A k \in Names :
        functions[k] # NoDef
          => (functions[k].name \in Names /\ GetFunction(functions[k].name) = functions[k])

\* C21: every executeFunction call whose handler ran (it resolved, it
\* failed, it timed out, and also when the failure then goes to a fallback)
\* appends exactly one entry to the history of the capability it executed
C21_EveryOutcomeRecorded ==
  [][ \A e \in Execs, o \in HandlerOutcomes :
        HandlerSettles(e, o)
          => LET name == stack[e][Len(stack[e])].name
             IN  /\ Len(executionHistory'[name]) = Len(executionHistory[name]) + 1
                 /\ executionHistory'[name][Len(executionHistory'[name])].success
                       = (o = "resolved") ]_vars

(***************************************************************************)
(* Part V.  Properties of MessageRouter.routeMessage.                      *)
(***************************************************************************)
\* C22: when the caller's daily count has reached the plan's limit,
\* routeMessage does not reject the request for that, and the conversation
\* history it asks for is limited to the plan's context size times the
\* plan's reduction factor
C22_QuotaReducesContext ==
  mlocal.fallbackApplied
    => /\ mpc = "threw" => mlocal.response = "all_failed"
       /\ (mreq.conversationId /\ mlocal.modelId # "none")
            => /\ mlocal.maxMessages * 100
                    <= Plan(mlocal.plan).contextSize * Plan(mlocal.plan).contextReductionFactor
               /\ Len(mlocal.history) <= mlocal.maxMessages

\* C23: routeMessage returns its response in the step that starts memory
\* extraction, without waiting for it; when the extraction settles, as a
\* success or as a failure, routeMessage's position and result stay as they
\* are, and no error of routeMessage comes from the extraction
C23_MemoryExtractionDecoupled ==
  [][ /\ ExtractMemoriesAndReturn
            => (mpc' = "returned" /\ mresult' = RouteResponse /\ mem' = "pending")
      /\ \A ok \in BOOLEAN :
            ExtractMemoriesSettles(ok) => (mpc' = mpc /\ mresult' = mresult)
      /\ mresult'.kind = "error"
            => mresult'.error[Len(mresult'.error)] # "memory extraction failed" ]_vars

\* the extraction failed after routeMessage returned its response
C23_Witness ==
  /\ mpc = "returned"
  /\ mresult.kind = "response"
  /\ mem = "rejected"
  /\ nRoutes = 1

\* what an error of routeMessage must not show: the provider manager's own
\* texts and the model ids
InternalDetail ==
  ModelIds \cup { "Provider manager error", "All providers failed for model" }

\* C24: when the primary and every fallback provider failed, routeMessage
\* throws one error that carries no internal detail and returns no response
C24_ExhaustionErrorIsGeneric ==
  mlocal.response = "all_failed"
    => /\ mpc = "threw"
       /\ mresult.kind = "error"
       /\ mresult.message = "none"
       /\ \A i \in 1..Len(mresult.error) : mresult.error[i] \notin InternalDetail

\* what is wrong with a request: the caller is unknown, the caller's plan is
\* not a plan, the persona is unknown, the persona does not allow the task
RequestProblems(req) ==
  { k \in { "caller", "plan", "persona", "task" } :
      \/ k = "caller" /\ req.userId \notin KnownUsers
      \/ k = "plan" /\ req.userId \in KnownUsers /\ ProfilePlan(req.userId) \notin PlanIds
      \/ k = "persona" /\ req.personalityId \notin PersonalityIds
      \/ k = "task" /\ req.personalityId \in PersonalityIds
           /\ TaskOf(req) \notin Personality(req.personalityId).allowedTasks }

\* the check an error message of routeMessage comes from
ErrorKind(error) ==
  IF Len(error) < 2 THEN "none"
  ELSE IF error[2] = "User validation failed" THEN "caller"
  ELSE IF error[2] = "Invalid user plan" THEN "plan"
  ELSE IF error[2] = "Invalid personality" THEN "persona"
  ELSE IF error[2] = "Personality does not support task" THEN "task"
  ELSE "other"

\* C25: once routeMessage is past its first steps with a request whose
\* caller, plan, persona or task is not acceptable, it has thrown the error
\* of one of the failed checks (or of the caller lookup itself), and since
\* the call began the provider manager has not been called, nothing was
\* indexed and the usage counters were not written
C25_ValidationBeforeEffects ==
  (mpc \notin { "idle", "validateUser" } /\ RequestProblems(mreq) # {})
    => /\ mpc = "threw"
       /\ mresult.kind = "error"
       /\ ErrorKind(mresult.error) \in RequestProblems(mreq) \cup { "caller" }
       /\ mcalls = mstart

\* after an earlier call went through, a call is refused for its task
C25_Witness ==
  /\ mpc = "threw"
  /\ ErrorKind(mresult.error) = "task"
  /\ mcalls.provider > 0
  /\ mcalls.storeVector > 0
  /\ mcalls.incrementUsage > 0

(***************************************************************************)
(* Part VI.  Properties of calculatePersonalityScore.                      *)
(***************************************************************************)
\* the fixed priority order of the personas
PersonaPriority == << "researcher", "visheshagya", "shikshak", "mitra" >>

\* C26: the persona calculatePersonalityScore selects has the maximal
\* score, no persona earlier in the priority order researcher, visheshagya,
\* shikshak, mitra has the same score, and two calls with the same input
\* select the same persona
C26_TopScorerByPriority ==
  /\ \A c \in 1..Len(scored) :
        scored[c].topChoice # "threw"
          => \E t \in 1..Len(PersonaPriority) :
               /\ scored[c].topChoice = PersonaPriority[t]
               /\ \A k \in 1..Len(PersonaPriority) :
                     Scores(scored[c].input)[PersonaPriority[k]]
                       <= Scores(scored[c].input)[PersonaPriority[t]]
               /\ \A k \in 1..(t - 1) :
                     Scores(scored[c].input)[PersonaPriority[k]]
                       < Scores(scored[c].input)[PersonaPriority[t]]
  /\ (Len(scored) = 2 /\ scored[1].input = scored[2].input)
        => scored[1].topChoice = scored[2].topChoice

\* twice the same chat event of a caller who prefers structured learning:
\* shikshak and mitra both score 2, and shikshak is selected both times
C26_Witness ==
  /\ Len(scored) = 2
  /\ scored[1].input = scored[2].input
  /\ scored[1].input.eventType = "chat"
  /\ scored[1].input.learningMode = "structured"
  /\ scored[1].input.emotionalState = "neutral"
  /\ scored[1].topChoice = "shikshak"

\* C27: stage notifications are fire-and-forget: a listener of stage-start or
\* stage-complete that throws, or whose handling never finishes, does not stop
\* the pipeline, so processEvent is never rejected on account of a listener
\* and a rejected processEvent always stopped at a failed step.
C27_ListenerNeverStopsPipeline ==
  (observer # "none" /\ EventSchemaOk(event) /\ ppc = "rejected")
    => failedStep # "listener"

\* C28: admission for one (caller, capability) key is linearizable: while
\* several executions of the same capability by the same caller are in flight,
\* the calls admitted within one window never exceed the capability's limit
C28_AdmittedWithinLimit ==
  \A u \in Users, n \in Names :
    functions[n] # NoDef => Len(admitLog[u, n]) <= functions[n].requestsPerMinute

\* two executions of one caller are in flight in handlers of the same
\* capability, both admitted in the current window, and the limit is reached
C28_Witness ==
  \E e1, e2 \in Execs :
    /\ e1 # e2
    /\ epc[e1] = "awaiting" /\ epc[e2] = "awaiting"
    /\ ectx[e1].userId = ectx[e2].userId
    /\ LET n == stack[e1][Len(stack[e1])].name
           u == ectx[e1].userId
       IN  /\ stack[e2][Len(stack[e2])].name = n
           /\ functions[n] # NoDef
           /\ Len(admitLog[u, n]) = functions[n].requestsPerMinute
           /\ functions[n].requestsPerMinute > 1

\* a probe of the primary failed: call goes on to the fallback loop
PrimaryProbeFailed(r) ==
  /\ probing[r]
  /\ idx[r] = 1
  /\ rpc[r] = "inflight"
  /\ rpc'[r] # "inflight"
  /\ outcome'[r] # "ok"

\* the failure of a fallback's probe has been recorded and the loop goes on
FallbackProbeFailed(r) ==
  /\ probing[r]
  /\ idx[r] > 1
  /\ rpc[r] = "updWrite"
  /\ outcome[r] = "fail"
  /\ rpc'[r] # "updWrite"

\* C30: a probe that fails while the circuit is half-open reopens it: once
\* the failure is handled the status is open and nextAttemptTime is the time
\* of the failure plus the cooldown, for a primary as well as for a fallback
C30_FailedProbeReopens ==
  [][ \A r \in Reqs :
        (PrimaryProbeFailed(r) \/ FallbackProbeFailed(r))
          => /\ redis'[Cur(r)].status = "open"
             /\ redis'[Cur(r)].nextAttemptTime = now + TimeoutMs ]_vars

\* C29: every provider call carries a deadline: a call of
\* ProviderManager.call always ends with a response or an error, even when an
\* adapter never answers, because an adapter call outstanding at its deadline
\* is abandoned as a failure
C29_CallTerminates ==
  \A r \in Reqs :
    (rpc[r] \notin { "idle", "done", "failed" }) ~> (rpc[r] \in { "done", "failed" })

\* caller r writes the failure it read the circuit state for
FailureWritten(r) ==
  /\ rpc[r] = "updWrite"
  /\ outcome[r] = "fail"
  /\ rpc'[r] # "updWrite"

\* C31: updates of a provider's circuit state are atomic read-modify-writes:
\* while the circuit is closed and no success came between a caller's read
\* and its write, every failure a caller records raises the stored
\* failureCount by one, so k concurrent failures take it from n to n + k
C31_NoFailureLost ==
  [][ \A r \in Reqs :
        ( /\ FailureWritten(r)
          /\ StatusOf(redis[Cur(r)]) = "closed"
          /\ redis[Cur(r)].failureCount >= snap[r].failureCount )
          => redis'[Cur(r)].failureCount = redis[Cur(r)].failureCount + 1 ]_vars

\* caller r is refused by the open circuit of the provider it turns to
RejectedByOpenCircuit(r) ==
  /\ rpc[r] = "cbRead"
  /\ CircuitRejects(GetCircuitBreakerState(redis[Cur(r)]), now)
  /\ rpc'[r] # "cbRead"

\* the catch of the fallback loop has handled the rejection of caller r
RejectionHandled(r) ==
  /\ rpc[r] = "updWrite"
  /\ outcome[r] = "rejected"
  /\ rpc'[r] # "updWrite"

\* C32: a call rejected because a provider's circuit is open (cooldown not
\* over) leaves that provider's circuit state as it was: neither the
\* rejection nor its handling changes status, failureCount or nextAttemptTime
C32_RejectionLeavesCircuit ==
  [][ \A r \in Reqs :
        (RejectedByOpenCircuit(r) \/ RejectionHandled(r))
          => redis'[Cur(r)] = redis[Cur(r)] ]_vars

\* this step is a fallback hop of execution e: executeFallback goes on to
\* call executeFunction for the fallback
FallbackHop(e) ==
  /\ epc[e] = "awaiting"
  /\ ectx'[e] # ectx[e]
  /\ ectx'[e].name = ectx[e].name

\* C33: each fallback hop raises the context's retryCount by exactly one and
\* appends to fallbackChain the name of the capability that has just failed,
\* so that fallbackChain lists the capabilities already attempted, in order
C33_HopRecordsFailedName ==
  [][ \A e \in Execs :
        FallbackHop(e)
          => /\ ectx'[e].retryCount = ectx[e].retryCount + 1
             /\ ectx'[e].fallbackChain
                  = Append(ectx[e].fallbackChain, stack[e][Len(stack[e])].name) ]_vars

\* C34: a failed execution (handler error or timeout) goes to the fallback
\* exactly when the capability declares one and the context's retryCount is
\* below the capability's retries; otherwise no handler is invoked and nothing
\* of the fallback is touched, and the call returns the failure result as it
\* is: success false, the error of the failure and no fallbackUsed (a call
\* that is itself a fallback returns it so to the hop that made it)
C34_FallbackOnlyWhenAllowed ==
  [][ \A e \in Execs, o \in HandlerOutcomes \ { "resolved" } :
        HandlerSettles(e, o)
          => LET top == stack[e][Len(stack[e])]
                 allowed == /\ top.def.fallback # "none"
                            /\ ectx[e].retryCount < top.def.retries
             IN  /\ (allowed /\ functions[top.def.fallback] # NoDef)
                       => ectx'[e].retryCount = ectx[e].retryCount + 1
                 /\ ~allowed
                       => /\ Len(stack'[e]) = Len(stack[e])
                          /\ ectx' = ectx
                          /\ rateLimiters' = rateLimiters
                          /\ epc'[e] = "settled"
                          /\ [ret'[e] EXCEPT !.fallbackUsed = "none"]
                                = [ kind |-> "result", success |-> FALSE,
                                    result |-> "null", error |-> ErrorMessage(o),
                                    fallbackUsed |-> "none", name |-> top.name ]
                          /\ Len(stack[e]) = 1 => ret'[e].fallbackUsed = "none" ]_vars

\* a fallback that failed after one hop is not handed on, although it declares
\* a fallback of its own: the retryCount has reached its retries
C34_Witness ==
  \E e \in Execs :
    /\ epc[e] = "settled"
    /\ Len(stack[e]) = 2
    /\ stack[e][2].outcome \in { "handler_error", "timed_out" }
    /\ stack[e][2].def.fallback # "none"
    /\ ectx[e].retryCount = 1
    /\ ectx[e].retryCount >= stack[e][2].def.retries
    /\ ret[e].kind = "result" /\ ~ret[e].success

\* the largest retries of the capabilities execution e has called
MaxRetriesInvolved(e) ==
  LET rs == { stack[e][i].def.retries : i \in 1..Len(stack[e]) }
  IN  CHOOSE m \in rs : \A x \in rs : x <= m

\* C35: executeFunction always terminates, also when a capability names
\* itself as fallback and when fallbacks form a cycle, given that every race
\* of a handler against its timeout ends; the fallback hops of one execution
\* never exceed the largest retries of the capabilities involved
C35_FallbackTerminates ==
  /\ [](\A e \in Execs :
          stack[e] # << >> => Len(stack[e]) - 1 <= MaxRetriesInvolved(e))
  /\ \A e \in Execs : (epc[e] = "awaiting") ~> (epc[e] = "settled")

\* a capability that names itself as fallback has failed, fallen back to
\* itself as often as its retries allow, and the execution has ended
C35_Witness ==
  \E e \in Execs :
    /\ epc[e] = "settled"
    /\ Len(stack[e]) = 3
    /\ \A i \in 1..3 : /\ stack[e][i].name = "a"
                        /\ stack[e][i].def.fallback = "a"
                        /\ stack[e][i].outcome \in { "handler_error", "timed_out", "settled_late" }
    /\ ectx[e].retryCount = 2

\* C36: the execution history of every capability holds at most 100 entries;
\* a new outcome goes to the end, and when that makes 101 the oldest entry is
\* dropped, so the history is the most recent outcomes in execution order
C36_HistoryBounded ==
  [][ \A n \in Names :
        LET h == executionHistory[n]
            g == executionHistory'[n]
        IN  /\ Len(g) <= 100
            /\ g # h => /\ g # << >>
                        /\ g = IF Len(h) < 100 THEN Append(h, g[Len(g)])
                                                ELSE Append(Tail(h), g[Len(g)]) ]_vars

\* a history is full and its oldest entries have been dropped: the first
\* outcome ever recorded was a success, the oldest one held is a failure
C36_Witness ==
  /\ Len(executionHistory["a"]) = 100
  /\ ~executionHistory["a"][1].success
  /\ executionHistory["b"] # << >>

\* C37: unregisterFunction(name) of a registered capability removes its
\* definition, its category entry, its limiter and its fallback link and
\* returns true; of an unknown name it returns false and changes nothing;
\* a registration of the name that follows succeeds and starts with a
\* limiter that holds no call
C37_UnregisterCleansUp ==
  [][ /\ \A name \in Names :
           UnregisterFunction(name)
             => IF functions[name] # NoDef
                THEN /\ UnregisterReturns(name)
                     /\ functions'[name] = NoDef
                     /\ \A c \in CategoryEnum : name \notin categories'[c]
                     /\ rateLimiters'[name] = NoLimiter
                     /\ fallbackChains'[name] = << >>
                ELSE /\ ~UnregisterReturns(name)
                     /\ << functions', categories', rateLimiters', fallbackChains' >>
                          = << functions, categories, rateLimiters, fallbackChains >>
      /\ \A definition \in DefinitionInputs :
           ( /\ functions[definition.name] = NoDef
             /\ SchemaOk(definition)
             /\ RegisterFunction(definition) )
             => /\ regResult'.outcome = "registered"
                /\ \A u \in Users : rateLimiters'[definition.name].requests[u] = << >> ]_vars

\* C38: within one adapter call the operation is attempted at most the
\* configured retries + 1 times, for every configured number from 0 on (0
\* means one attempt); attempts follow one another, none follows a success,
\* and when all have failed the error of the last attempt is raised
C38_AttemptsWithinConfigured ==
  [][ /\ \A retries \in RetriesOptions :
           ProviderCall(TRUE, retries) => maxRetries' = retries
      /\ Len(opLog') <= maxRetries' + 1
      /\ \A i \in 1..(Len(opLog') - 1) : opLog'[i] # "ok"
      /\ (apc = "operation" /\ apc' = "threw")
           => /\ Len(opLog') = maxRetries' + 1
              /\ lastError' = opLog'[Len(opLog')] ]_vars

\* C39: in the result executeFunction returns, fallbackUsed, when set, names
\* the capability whose handler produced that result, whatever the number
\* of fallback hops
C39_FallbackUsedNamesProducer ==
  \A e \in Execs :
    (epc[e] = "settled" /\ ret[e].kind = "result" /\ ret[e].fallbackUsed # "none")
      => ret[e].fallbackUsed = ret[e].name

\* C40: usage accounting counts successful requests: within one day a
\* routeMessage call that returns a response leaves the caller's stored daily
\* count one higher than it was, and a call that fails leaves it as it was
C40_UsageCountsResponses ==
  [][ /\ (\E ok \in BOOLEAN : UpdateUsage(ok))
           => mcalls'.dailyMessages[mreq.userId] = mcalls.dailyMessages[mreq.userId] + 1
      /\ (mpc # "threw" /\ mpc' = "threw"
             /\ mcalls.incrementUsage = mstart.incrementUsage)
           => mcalls'.dailyMessages = mstart.dailyMessages ]_vars

====
